---- MODULE Spec2Model ----
(***************************************************************************)
(* Verification model of solid-model: the proxy handlers that make a plain *)
(* object reactive (ReactiveHandler, MemoHandler) and the dependency store *)
(* they keep.  One raw object `t` is wrapped by one proxy; the properties  *)
(* of `t` are ECMAScript property descriptors, the reactive engine         *)
(* (solid-js) is reduced to the four capabilities the handlers consume:    *)
(* the ambient listener, cleanup registration, signals that queue their    *)
(* observers, and batch.  A read names the listener it runs under.         *)
(***************************************************************************)
EXTENDS Integers, FiniteSets, Sequences, TLC

(***************************************************************************)
(* Bounds of the model                                                     *)
(***************************************************************************)
\* Live track() registrations (cleanups not yet run) over all computations.
MaxTrack == 2
\* Keys opted out of reactivity at one time.
MaxNull == 1
\* Frames of the getter the call stack holds before the runtime throws RangeError.
StackDepth == 3
\* Proxies created for one raw object.
MaxFacades == 3
\* Cleanups user code registers under the scope of one proxy.
MaxCleanups == 1
\* Length of the reactive array.
MaxLen == 5
\* Mutating calls made on one reactive array.
MaxListOps == 1
\* Signals Atom.source creates for one source.
MaxCells == 2
\* Reads of one unowned memo whose owners are not cleaned up yet.
MaxReaders == 2
\* Native memos one unowned memo creates in its life.
MaxMemos == 2

(***************************************************************************)
(* The universe: keys, values, getters, prototypes, computations           *)
(***************************************************************************)
Keys == {"a", "b"}
SHAPE == "[[Shape]]"
PROTO == "[[Prototype]]"
IS_EXTENSIBLE == "[[IsExtensible]]"
Internal == {SHAPE, PROTO, IS_EXTENSIBLE}
ForceTarget == Keys \cup Internal

Undefined == 0
Vals == {1, 2}

Comps == {"c1", "c2"}
NoListener == "none"
\* The native memo createUnownedMemo creates for the getter: a computation too.
MemoNode == "m"
Nodes == Comps \cup {MemoNode}

\* A private field #proxy: not installed on the object, or holding `undefined`, or
\* holding a proxy (its position in `facades`, 1 or more).
NoField == -1
NoFacade == 0
\* The raw object itself, where an operation takes "the raw object or its proxy".
RawObj == 0

\* The keys of an array: its indices, "length", and $TRACK, the key of the
\* aggregate cell that stands for the whole array.
IdxKeys == <<"0", "1", "2", "3", "4", "5", "6", "7">>
IdxKey(i) == IdxKeys[i + 1]
LENGTH == "length"
TRACK == "$TRACK"
\* An index of an array that holds no property (a hole).
Empty == -1
\* No reactive array created yet.
NoSource == [made |-> FALSE, dep |-> 0, A |-> 1, B |-> 2, cell |-> 0, target |-> "none",
             cells |-> 0]
\* No accessor made by createUnownedMemo yet; the closure variables of a new one.
NoAccessor == [made |-> FALSE, fallback |-> FALSE, running |-> FALSE, memo |-> FALSE,
               val |-> Undefined, count |-> 0, pending |-> [c \in Comps |-> 0],
               roots |-> 0, disposals |-> 0, end |-> "none", before |-> "none"]
NoList == [by |-> "none", items |-> <<>>, reads |-> [c \in Comps |-> {}], ops |-> 0]

\* Store<T>: `undefined` (no listener for the key), `null` (opted out), or a Forcer.
StoreUndefined == "undefined"
StoreNull == "null"
StoreForcer == "forcer"

\* Cache<T>: `undefined` (not read yet), `null` (no getter to memoize), or the
\* accessor createUnownedMemo returned for the getter.
CacheUndefined == "undefined"
CacheNull == "null"
CacheMemo == "memo"
\* and, while memoize runs, the delegate `() => this.circular(t, k, f)`.
CacheCircular == "circular"

(***************************************************************************)
(* Property descriptors (ECMAScript 6.2.6).  A descriptor is a record whose *)
(* domain is the set of fields it has, so a partial descriptor is a record  *)
(* with fewer fields.  No modelled accessor has a setter.                   *)
(***************************************************************************)
Absent == [absent |-> TRUE]
Data(v, w, e, c) == [value |-> v, writable |-> w, enumerable |-> e, configurable |-> c]
Acc(g, e, c) == [get |-> g, enumerable |-> e, configurable |-> c]

IsAbsent(d) == "absent" \in DOMAIN d
IsAccessorDescriptor(d) == "get" \in DOMAIN d
IsDataDescriptor(d) == "value" \in DOMAIN d \/ "writable" \in DOMAIN d
Fld(d, f, dflt) == IF f \in DOMAIN d THEN d[f] ELSE dflt

\* The descriptor CreateDataProperty passes to [[DefineOwnProperty]].
FullDesc(v) == Data(v, TRUE, TRUE, TRUE)
\* A descriptor that locks a property: not writable, not configurable.
Locked == Data(1, FALSE, TRUE, FALSE)
\* The getter user code installs on `b`: get b() { return this.a }.
AccDesc == Acc("gA", TRUE, TRUE)
\* A getter that reads its own property, get b() { return this.b + 1 }, and one
\* that throws, get b() { throw new Error() }.
AccSelf == Acc("gSelf", TRUE, TRUE)
AccThrow == Acc("gThrow", TRUE, TRUE)
\* The inputs: `a` is the data key (assigned, redefined, locked, deleted), `b` the
\* key that is inherited, assigned or given a getter.
WriteVals(k) == IF k = "a" THEN Vals ELSE {1}
DescInputs(k) == IF k = "a" THEN {FullDesc(v) : v \in Vals} \cup {Locked} ELSE {AccDesc}

\* The two prototype objects the raw object can have (plain, unwrapped, themselves
\* with a null prototype): P holds `b` as a data property, Q holds `b` as a getter.
Protos == {"P", "Q"}
ProtoObj(p) ==
    IF p = "P" THEN [a |-> Absent, b |-> Data(1, TRUE, TRUE, TRUE)]
    ELSE [a |-> Absent, b |-> Acc("gA", TRUE, TRUE)]

VARIABLES
    own,        \* raw object: own property descriptors, Keys -> descriptor | Absent
    proto,      \* raw object: [[Prototype]]
    ext,        \* raw object: [[Extensible]]
    store,      \* ReactiveHandler.#store
    count,      \* Forcer.count of the forcer created for each key
    regs,       \* per computation: the cleanups track() registered on it (a bag of keys)
    queue,      \* the computations queued for re-evaluation
    last,       \* the last operation and what it did
    cache,      \* MemoHandler.#cache
    memo,       \* the native memo of the getter: whether it exists, its value, and
                \* whether the accessor that holds it was evicted from the cache
    readers,    \* per computation: the cleanups the memoized accessor registered on it
    rawProxy,   \* a second raw object `o`: its RawData.#proxy (Reactive.create)
    targetProxy, \* `o`: its TargetHandler.#proxy (BaseHandler.create, setProxy)
    facades,    \* the proxies created for `o`, in the order of their creation
    list,       \* a reactive array: its handler, its items, the keys its effects read
    atom,       \* two signals with their atoms, and the atom Atom.source made of them
    unowned     \* an accessor made by createUnownedMemo: the variables of its closure

vars == <<own, proto, ext, store, count, regs, queue, last, cache, memo, readers,
          rawProxy, targetProxy, facades, list, atom, unowned>>
memoVars == <<cache, memo, readers>>
attVars == <<rawProxy, targetProxy, facades>>

(***************************************************************************)
(* The raw object: Reflect.* on an ordinary object                         *)
(***************************************************************************)
\* Object.hasOwn(t, k); the structural keys are symbols no object of the model owns.
HasOwn(o, k) == k \in Keys /\ ~IsAbsent(o[k])

\* The property found for k on t or on its prototype.
Lookup(o, p, k) == IF ~IsAbsent(o[k]) THEN o[k] ELSE ProtoObj(p)[k]

\* Object.prototype.__lookupGetter__: the getter of k across the prototype chain.
getGetter(o, p, k) == Fld(Lookup(o, p, k), "get", "none")

\* The keys a getter reads through `this`.
GetterReads(g) == IF g = "gA" THEN {"a"} ELSE {}

\* Reflect.get(t, k, r): the value; a getter is evaluated on the current state.
RECURSIVE ReflectGet(_, _, _)
ReflectGet(o, p, k) ==
    LET d == Lookup(o, p, k) IN
    IF IsAbsent(d) THEN Undefined
    ELSE IF IsAccessorDescriptor(d)
         THEN ReflectGet(o, p, "a")
         ELSE d.value

\* Reflect.has(t, k)
ReflectHas(o, p, k) == ~IsAbsent(Lookup(o, p, k))

\* Reflect.deleteProperty(t, k): [ok, own]
ReflectDeleteProperty(o, k) ==
    IF IsAbsent(o[k]) THEN [ok |-> TRUE, own |-> o]
    ELSE IF o[k].configurable THEN [ok |-> TRUE, own |-> [o EXCEPT ![k] = Absent]]
    ELSE [ok |-> FALSE, own |-> o]

\* ValidateAndApplyPropertyDescriptor (ECMAScript 10.1.6.3): whether `desc` may be
\* applied over `cur`.
DescAllowed(cur, desc, e) ==
    IF IsAbsent(cur) THEN e
    ELSE IF cur.configurable THEN TRUE
    ELSE /\ ~Fld(desc, "configurable", FALSE)
         /\ Fld(desc, "enumerable", cur.enumerable) = cur.enumerable
         /\ ~(IsAccessorDescriptor(desc) /\ ~IsAccessorDescriptor(cur))
         /\ ~(IsDataDescriptor(desc) /\ IsAccessorDescriptor(cur))
         /\ (IsAccessorDescriptor(cur) => Fld(desc, "get", cur.get) = cur.get)
         /\ (~IsAccessorDescriptor(cur) /\ ~cur.writable =>
                /\ ~Fld(desc, "writable", FALSE)
                /\ Fld(desc, "value", cur.value) = cur.value)

\* The descriptor that results from applying `desc` over `cur`.
DescApply(cur, desc) ==
    LET e == Fld(desc, "enumerable", Fld(cur, "enumerable", FALSE))
        c == Fld(desc, "configurable", Fld(cur, "configurable", FALSE))
    IN  IF IsAccessorDescriptor(desc)
        THEN Acc(desc.get, e, c)
        ELSE IF IsDataDescriptor(desc) /\ (IsAbsent(cur) \/ IsAccessorDescriptor(cur))
        THEN Data(Fld(desc, "value", Undefined), Fld(desc, "writable", FALSE), e, c)
        ELSE IF IsAbsent(cur)
        THEN Data(Undefined, FALSE, e, c)
        ELSE [f \in DOMAIN cur |-> IF f \in DOMAIN desc THEN desc[f] ELSE cur[f]]

\* Reflect.defineProperty(t, k, desc): [ok, own]
ReflectDefineProperty(o, e, k, desc) ==
    IF DescAllowed(o[k], desc, e)
    THEN [ok |-> TRUE, own |-> [o EXCEPT ![k] = DescApply(o[k], desc)]]
    ELSE [ok |-> FALSE, own |-> o]

\* Reflect.setPrototypeOf(t, p): an ordinary object refuses a new prototype once it
\* is not extensible.
ReflectSetPrototypeOf(p, e, np) == np = p \/ e

\* The early return of both setPrototypeOf traps, called without `force`:
\* `proto === Reflect.getPrototypeOf(t)`. (with a variant that never takes it)
sameProto_Never(np, p) == FALSE
sameProto(np, p) == np = p

(***************************************************************************)
(* The reactive engine, as far as the handlers consume it                  *)
(***************************************************************************)
\* The reactive part of the state the handler methods read and write.
Rx == [store |-> store, count |-> count, regs |-> regs]

\* The track() registrations computation c holds.
Held(rg, c) ==
    rg[c]["a"] + rg[c]["b"] + rg[c][SHAPE] + rg[c][PROTO] + rg[c][IS_EXTENSIBLE]
Total(rg) == Held(rg, "c1") + Held(rg, "c2")

\* onCleanup(() => !--forcer.count && delete store[k]), run for every registration
\* the computation c holds: what the engine does when it cleans c (before a re-run,
\* and on disposal). (with a variant that decrements and never deletes)
cleanNode_NoEvict(st, c) ==
    [store |-> st.store,
     count |-> [k \in ForceTarget |-> st.count[k] - st.regs[c][k]],
     regs  |-> [st.regs EXCEPT ![c] = [k \in ForceTarget |-> 0]]]
cleanNode(st, c) ==
    [store |-> [k \in ForceTarget |->
                   IF st.regs[c][k] > 0 /\ st.count[k] >= 1 /\ st.count[k] <= st.regs[c][k]
                   THEN StoreUndefined ELSE st.store[k]],
     count |-> [k \in ForceTarget |-> st.count[k] - st.regs[c][k]],
     regs  |-> [st.regs EXCEPT ![c] = [k \in ForceTarget |-> 0]]]

\* The computations a forcer's update() reaches: the observers of the forcer in the
\* store. A forcer that was replaced by null keeps its observers but is out of reach.
Observers(st, k) == IF st.store[k] = StoreForcer THEN {c \in Nodes : st.regs[c][k] > 0} ELSE {}

\* batch(fn): `groups` is the sequence of batches, each the keys update() was called
\* on inside it. Every batch that reaches an observer is one pass of the engine.
Scheduled(st, groups) == UNION {Observers(st, k) : k \in UNION {groups[i] : i \in DOMAIN groups}}
Passes(st, groups) ==
    Cardinality({i \in DOMAIN groups : UNION {Observers(st, k) : k \in groups[i]} # {}})

(***************************************************************************)
(* ReactiveHandler                                                         *)
(***************************************************************************)
\* Variants of track: without the getListener() test, registering on the shape key,
\* storing null instead of a forcer.
track_NoListenerCheck(st, l, k) ==
    IF st.store[k] = StoreNull THEN st
    ELSE [store |-> [st.store EXCEPT ![k] = StoreForcer],
          count |-> [st.count EXCEPT ![k] = (IF st.store[k] = StoreForcer THEN @ ELSE 0) + 1],
          regs  |-> IF l = NoListener THEN st.regs ELSE [st.regs EXCEPT ![l][k] = @ + 1]]
track_OnShape(st, l, k) ==
    IF l = NoListener THEN st
    ELSE IF st.store[SHAPE] = StoreNull THEN st
    ELSE [store |-> [st.store EXCEPT ![SHAPE] = StoreForcer],
          count |-> [st.count EXCEPT ![SHAPE] = (IF st.store[SHAPE] = StoreForcer THEN @ ELSE 0) + 1],
          regs  |-> [st.regs EXCEPT ![l][SHAPE] = @ + 1]]
track_Null(st, l, k) ==
    IF l = NoListener THEN st
    ELSE [st EXCEPT !.store[k] = StoreNull]

\* ReactiveHandler.track(t, k): registers the listener l on the forcer of k.
track(st, l, k) ==
    IF l = NoListener THEN st
    ELSE IF st.store[k] = StoreNull THEN st
    ELSE [store |-> [st.store EXCEPT ![k] = StoreForcer],
          count |-> [st.count EXCEPT ![k] = (IF st.store[k] = StoreForcer THEN @ ELSE 0) + 1],
          regs  |-> [st.regs EXCEPT ![l][k] = @ + 1]]

\* Whether track(t, k) has something to register.
Tracks(st, l, k) == l # NoListener /\ st.store[k] # StoreNull

\* ReactiveHandler.compare: equalFn, reference equality.
compare(next, prev) == next = prev

\* Variant of compareDesc that looks at the value only.
compareDesc_ValueOnly(next, prev) ==
    compare(Fld(next, "value", Undefined), Fld(prev, "value", Undefined))

\* compareDesc(handler, t, k, next, prev): TRUE when no field of `next` differs from
\* the same field of `prev`. A field `prev` lacks reads as undefined there.
compareDesc(next, prev) ==
    \A elm \in DOMAIN next :
        IF elm = "value"
        THEN compare(next.value, Fld(prev, "value", Undefined))
        ELSE elm \in DOMAIN prev /\ next[elm] = prev[elm]

\* The update() calls of each trap, as the batches they are made in.
\* (with variants: a delete that forgets the shape key, a definition that updates
\* every key, a definition that updates new keys only, a prototype change that
\* updates the structural keys only)
deletePropertyCalls_KeyOnly(k) == <<{k}>>
deletePropertyCalls(k) == <<{k, SHAPE}>>
definePropertyCalls_AllKeys(k, desc, prev) ==
    IF IsAbsent(prev) THEN <<{SHAPE} \cup Keys>>
    ELSE IF compareDesc(desc, prev) THEN <<>>
    ELSE <<Keys>>
definePropertyCalls_NewOnly(k, desc, prev) ==
    IF IsAbsent(prev) THEN <<{SHAPE, k}>> ELSE <<>>
definePropertyCalls(k, desc, prev) ==
    IF IsAbsent(prev) THEN <<{SHAPE, k}>>
    ELSE IF compareDesc(desc, prev) THEN <<>>
    ELSE <<{k}>>
setPrototypeOfCalls_Structural(st, o) == <<{PROTO, SHAPE}>>
setPrototypeOfCalls(st, o) ==
    <<{PROTO, SHAPE} \cup {k \in ForceTarget : st.store[k] # StoreUndefined /\ ~HasOwn(o, k)}>>
preventExtensionsCalls == <<{IS_EXTENSIBLE}>>

Calls(groups) == UNION {groups[i] : i \in DOMAIN groups}

\* batch(fn) around two operations that batch their own updates: the inner batches
\* join the outer one, which runs the engine once when it ends.
batch(g1, g2) == <<Calls(g1) \cup Calls(g2)>>

\* The record of an operation: the trap, its key, the listener it ran under, what it
\* returned (ok, out), the keys update() was called on, the engine passes it caused,
\* for a definition the descriptor given and the one it replaced, for an assignment
\* the first value written (and in `out` the last), for a prototype change whether
\* the prototype changed, for an operation on the memoizing proxy how many times it
\* ran the getter function, for a read the receiver and the exception it ended with.
NoOp == [op |-> "init", k |-> "a", l |-> NoListener, ok |-> TRUE, out |-> Undefined,
         calls |-> {}, passes |-> 0, hadOwn |-> FALSE, desc |-> Absent, prev |-> Absent,
         first |-> Undefined, changed |-> FALSE, evals |-> 0, r |-> "proxy",
         threw |-> "none", att |-> NoField, arg |-> RawObj, groups |-> <<>>,
         items |-> <<>>, traps |-> <<>>, seen |-> <<>>,
         call |-> [m |-> "none", vs |-> <<>>, a |-> 0, b |-> 0],
         f |-> "none", writes |-> <<>>, tracked |-> {}]

\* A read runs in user code (nothing queued: the engine re-runs what an update queued
\* before control returns to user code) or in a computation that is not waiting to be
\* re-run.
CanRead(l) == IF l = NoListener THEN queue = {} ELSE l \notin queue
\* A mutation runs when nothing is queued.
CanAct == queue = {}

\* A trap that only reads: the raw object and the queue are untouched.
Reads(st, rec) ==
    /\ store' = st.store /\ count' = st.count /\ regs' = st.regs
    /\ last' = rec
    /\ UNCHANGED <<own, proto, ext, queue>>
    /\ UNCHANGED memoVars
    /\ UNCHANGED attVars
    /\ UNCHANGED list
    /\ UNCHANGED atom
    /\ UNCHANGED unowned

\* The raw object.
Raw(o, p, e) == [own |-> o, proto |-> p, ext |-> e]

\* What the pass of the engine at the end of each batch finds: a trap calls
\* Reflect.x(t, ...) first and batch(() => this.update(...)) after it, so the raw
\* object is as the trap leaves it. (with a variant that notifies first)
seenBy_Before(groups, before, after) == [i \in DOMAIN groups |-> before]
seenBy(groups, before, after) == [i \in DOMAIN groups |-> after]

\* A trap that mutates: `o`, `p`, `e` is the raw object after it, `groups` its
\* update() calls.
Mutates(o, p, e, groups, rec) ==
    /\ own' = o /\ proto' = p /\ ext' = e
    /\ queue' = queue \cup Scheduled(Rx, groups)
    /\ last' = [rec EXCEPT !.calls = Calls(groups), !.passes = Passes(Rx, groups),
                           !.groups = groups,
                           !.seen = seenBy(groups, Raw(own, proto, ext), Raw(o, p, e))]
    /\ UNCHANGED <<store, count, regs>>
    /\ UNCHANGED memoVars
    /\ UNCHANGED attVars
    /\ UNCHANGED list
    /\ UNCHANGED atom
    /\ UNCHANGED unowned

\* The value the get trap returns.
get(o, p, k) == ReflectGet(o, p, k)

\* get(t, k, r): Reflect.get, then track(t, k). A getter runs with the proxy as
\* `this`, so the keys it reads go through this trap first.
Get(k, l) ==
    /\ CanRead(l)
    /\ LET inner == GetterReads(getGetter(own, proto, k))
           need == Cardinality({j \in inner \cup {k} : Tracks(Rx, l, j)})
           st1 == IF inner = {} THEN Rx ELSE track(Rx, l, "a")
       IN  /\ Total(regs) + need <= MaxTrack
           /\ Reads(track(st1, l, k),
                    [NoOp EXCEPT !.op = "get", !.k = k, !.l = l, !.out = get(own, proto, k)])

\* has(t, k): Reflect.has, then track(t, k).
Has(k, l) ==
    /\ CanRead(l)
    /\ Tracks(Rx, l, k) => Total(regs) < MaxTrack
    /\ Reads(track(Rx, l, k),
             [NoOp EXCEPT !.op = "has", !.k = k, !.l = l, !.ok = ReflectHas(own, proto, k)])

\* getOwnPropertyDescriptor(t, k): Reflect.getOwnPropertyDescriptor, then track(t, k).
GetOwnPropertyDescriptor(k, l) ==
    /\ CanRead(l)
    /\ Tracks(Rx, l, k) => Total(regs) < MaxTrack
    /\ Reads(track(Rx, l, k),
             [NoOp EXCEPT !.op = "getOwnPropertyDescriptor", !.k = k, !.l = l,
                          !.ok = HasOwn(own, k)])

\* ownKeys(t): Reflect.ownKeys, then track(t, Internal.SHAPE).
OwnKeys(l) ==
    /\ CanRead(l)
    /\ Tracks(Rx, l, SHAPE) => Total(regs) < MaxTrack
    /\ Reads(track(Rx, l, SHAPE), [NoOp EXCEPT !.op = "ownKeys", !.k = SHAPE, !.l = l])

\* getPrototypeOf(t): Reflect.getPrototypeOf, then track(t, Internal.PROTO).
GetPrototypeOf(l) ==
    /\ CanRead(l)
    /\ Tracks(Rx, l, PROTO) => Total(regs) < MaxTrack
    /\ Reads(track(Rx, l, PROTO), [NoOp EXCEPT !.op = "getPrototypeOf", !.k = PROTO, !.l = l])

\* isExtensible(t): Reflect.isExtensible, then track(t, Internal.IS_EXTENSIBLE).
IsExtensible(l) ==
    /\ CanRead(l)
    /\ Tracks(Rx, l, IS_EXTENSIBLE) => Total(regs) < MaxTrack
    /\ Reads(track(Rx, l, IS_EXTENSIBLE),
             [NoOp EXCEPT !.op = "isExtensible", !.k = IS_EXTENSIBLE, !.l = l, !.ok = ext])

\* The body of the defineProperty trap: [ok, own, groups].
defineProperty_NotifiesRejected(o, e, k, desc) ==
    LET prev == o[k]
        r == ReflectDefineProperty(o, e, k, desc)
    IN  [ok |-> r.ok, own |-> r.own, groups |-> definePropertyCalls(k, desc, prev)]
defineProperty(o, e, k, desc) ==
    LET prev == o[k]
        r == ReflectDefineProperty(o, e, k, desc)
    IN  IF ~r.ok THEN [ok |-> FALSE, own |-> o, groups |-> <<>>]
        ELSE [ok |-> TRUE, own |-> r.own, groups |-> definePropertyCalls(k, desc, prev)]

\* defineProperty(t, k, desc), called by Object.defineProperty on the proxy.
DefineProperty(k, desc) ==
    /\ CanAct
    /\ LET r == defineProperty(own, ext, k, desc)
       IN  Mutates(r.own, proto, ext, r.groups,
                   [NoOp EXCEPT !.op = "defineProperty", !.k = k, !.ok = r.ok,
                                !.hadOwn = HasOwn(own, k), !.desc = desc, !.prev = own[k]])

\* OrdinarySet(t, k, v, receiver) (ECMAScript 10.1.9.2): the descriptor the receiver's
\* [[DefineOwnProperty]] is reached with, or Absent when the assignment is refused
\* before it gets there.
SetDesc(o, p, k, v) ==
    LET d == Lookup(o, p, k) IN
    IF IsAccessorDescriptor(d) THEN Absent
    ELSE IF ~IsAbsent(d) /\ ~d.writable THEN Absent
    ELSE IF IsAbsent(o[k]) THEN FullDesc(v)
    ELSE [value |-> v]

\* The body of the set trap: untrack(() => Reflect.set(t, k, v, r)); the assignment
\* comes back through the defineProperty trap, which is where the updates are made.
set(o, p, e, k, v) ==
    LET desc == SetDesc(o, p, k, v)
    IN  IF IsAbsent(desc) THEN [ok |-> FALSE, own |-> o, groups |-> <<>>]
        ELSE defineProperty(o, e, k, desc)

\* set(t, k, v, r), called by an assignment through the proxy.
Set(k, v) ==
    /\ CanAct
    /\ LET r == set(own, proto, ext, k, v)
       IN  Mutates(r.own, proto, ext, r.groups,
                   [NoOp EXCEPT !.op = "set", !.k = k, !.ok = r.ok, !.out = v, !.first = v,
                                !.hadOwn = HasOwn(own, k),
                                !.desc = SetDesc(own, proto, k, v), !.prev = own[k]])

\* User code: batch(() => { proxy[k] = v1; proxy[k] = v2; }). The updates of both
\* assignments fall into the one batch of the caller.
Batch(k, v1, v2) ==
    /\ CanAct
    /\ LET r1 == set(own, proto, ext, k, v1)
           r2 == set(r1.own, proto, ext, k, v2)
       IN  Mutates(r2.own, proto, ext, batch(r1.groups, r2.groups),
                   [NoOp EXCEPT !.op = "batch", !.k = k, !.ok = r1.ok /\ r2.ok, !.out = v2,
                                !.first = v1, !.hadOwn = HasOwn(own, k), !.prev = own[k]])

\* deleteProperty(t, k)
DeleteProperty(k) ==
    /\ CanAct
    /\ LET r == ReflectDeleteProperty(own, k)
           groups == IF r.ok /\ HasOwn(own, k) THEN deletePropertyCalls(k) ELSE <<>>
       IN  Mutates(r.own, proto, ext, groups,
                   [NoOp EXCEPT !.op = "deleteProperty", !.k = k, !.ok = r.ok,
                                !.hadOwn = HasOwn(own, k), !.prev = own[k]])

\* setPrototypeOf(t, proto, force = false)
SetPrototypeOf(np) ==
    /\ CanAct
    /\ IF sameProto(np, proto)
       THEN Mutates(own, proto, ext, <<>>,
                    [NoOp EXCEPT !.op = "setPrototypeOf", !.k = PROTO, !.ok = TRUE])
       ELSE LET out == ReflectSetPrototypeOf(proto, ext, np)
            IN  Mutates(own, IF out THEN np ELSE proto, ext, setPrototypeOfCalls(Rx, own),
                        [NoOp EXCEPT !.op = "setPrototypeOf", !.k = PROTO, !.ok = out,
                                     !.changed = out])

\* preventExtensions(t)
PreventExtensions ==
    /\ CanAct
    /\ Mutates(own, proto, FALSE, preventExtensionsCalls,
               [NoOp EXCEPT !.op = "preventExtensions", !.k = IS_EXTENSIBLE])

\* handler.update(t, k), called by user code to force an update.
Update(k) ==
    /\ CanAct
    /\ Mutates(own, proto, ext, <<{k}>>, [NoOp EXCEPT !.op = "update", !.k = k])

\* User code opts a key out of reactivity: getStore(proxy)[k] = null.
OptOut(k) ==
    /\ CanAct
    /\ Cardinality({j \in ForceTarget : store[j] = StoreNull}) < MaxNull
    /\ store' = [store EXCEPT ![k] = StoreNull]
    /\ last' = [NoOp EXCEPT !.op = "optOut", !.k = k]
    /\ UNCHANGED <<own, proto, ext, count, regs, queue>>
    /\ UNCHANGED memoVars
    /\ UNCHANGED attVars
    /\ UNCHANGED list
    /\ UNCHANGED atom
    /\ UNCHANGED unowned

\* User code assigns to the raw object directly, bypassing the proxy: no trap runs.
RawSet(k, v) ==
    /\ CanAct
    /\ LET desc == SetDesc(own, proto, k, v)
           r == IF IsAbsent(desc) THEN [ok |-> FALSE, own |-> own]
                ELSE ReflectDefineProperty(own, ext, k, desc)
       IN  /\ own' = r.own
           /\ last' = [NoOp EXCEPT !.op = "rawSet", !.k = k, !.ok = r.ok, !.out = v]
    /\ UNCHANGED <<proto, ext, store, count, regs, queue>>
    /\ UNCHANGED memoVars
    /\ UNCHANGED attVars
    /\ UNCHANGED list
    /\ UNCHANGED atom
    /\ UNCHANGED unowned

\* No native memo exists.
NoMemo == [live |-> FALSE, val |-> Undefined, orphan |-> FALSE]

(***************************************************************************)
(* Computations: re-run by the engine when queued, disposed by user code   *)
(***************************************************************************)
\* The cleanups of computation c: those track() registered and those the memoized
\* accessor registered, onCleanup(() => --count || (disp(), memo = disp = undefined)).
\* When the last reader of the native memo goes, the memo is disposed, and with it
\* its own registrations. (with a variant in which the reader's cleanup leaves the
\* native memo to its owner)
Cleans_KeepsMemo(c) ==
    LET st == cleanNode(Rx, c)
    IN  /\ store' = st.store /\ count' = st.count /\ regs' = st.regs
        /\ memo' = memo
        /\ readers' = [readers EXCEPT ![c] = 0]
        /\ UNCHANGED cache
Cleans(c) ==
    LET st == cleanNode(Rx, c)
        disp == readers[c] > 0 /\ \A d \in Comps \ {c} : readers[d] = 0
        st2 == IF disp THEN cleanNode(st, MemoNode) ELSE st
    IN  /\ store' = st2.store /\ count' = st2.count /\ regs' = st2.regs
        /\ memo' = IF disp THEN NoMemo ELSE memo
        /\ readers' = [readers EXCEPT ![c] = 0]
        /\ UNCHANGED cache

\* The engine re-runs the queued computation c: it is cleaned first; the reads of
\* its function follow as reads under listener c.
Rerun(c) ==
    /\ c \in queue
    /\ Cleans(c)
    /\ queue' = queue \ {c}
    /\ last' = [NoOp EXCEPT !.op = "rerun", !.l = c]
    /\ UNCHANGED <<own, proto, ext>>
    /\ UNCHANGED attVars
    /\ UNCHANGED list
    /\ UNCHANGED atom
    /\ UNCHANGED unowned

\* User code disposes computation c: its cleanups run.
Dispose(c) ==
    /\ queue = {}
    /\ Held(regs, c) > 0
    /\ Cleans(c)
    /\ last' = [NoOp EXCEPT !.op = "dispose", !.l = c]
    /\ UNCHANGED <<own, proto, ext, queue>>
    /\ UNCHANGED attVars
    /\ UNCHANGED list
    /\ UNCHANGED atom
    /\ UNCHANGED unowned

(***************************************************************************)
(* Specification of the tracking proxy (ReactiveHandler.create(t)) read by *)
(* two computations and by user code, and mutated through its traps        *)
(***************************************************************************)
Listeners == Comps \cup {NoListener}

Init ==
    /\ own = [a |-> FullDesc(1), b |-> Absent]
    /\ proto = "P"
    /\ ext = TRUE
    /\ store = [k \in ForceTarget |-> StoreUndefined]
    /\ count = [k \in ForceTarget |-> 0]
    /\ regs = [c \in Nodes |-> [k \in ForceTarget |-> 0]]
    /\ queue = {}
    /\ last = NoOp
    /\ cache = [k \in Keys |-> CacheUndefined]
    /\ memo = NoMemo
    /\ readers = [c \in Comps |-> 0]
    /\ rawProxy = NoField
    /\ targetProxy = NoField
    /\ facades = <<>>
    /\ list = NoList
    /\ atom = NoSource
    /\ unowned = NoAccessor

Next ==
    \/ \E k \in Keys, l \in Listeners : Get(k, l)
    \/ \E k \in Keys, l \in Listeners : Has(k, l)
    \/ \E l \in Listeners : OwnKeys(l)
    \/ \E l \in Listeners : GetPrototypeOf(l)
    \/ \E l \in Listeners : IsExtensible(l)
    \/ \E k \in Keys : \E v \in WriteVals(k) : Set(k, v)
    \/ \E v1, v2 \in Vals : v1 # v2 /\ Batch("a", v1, v2)
    \/ \E k \in Keys : \E desc \in DescInputs(k) : DefineProperty(k, desc)
    \/ \E k \in Keys : DeleteProperty(k)
    \/ \E np \in Protos : SetPrototypeOf(np)
    \/ \E k \in Keys : Update(k)
    \/ \E c \in Comps : Rerun(c)
    \/ \E c \in Comps : Dispose(c)

Spec == Init /\ [][Next]_vars

(***************************************************************************)
(* Specification of the tracking proxy with every trap, read by one        *)
(* computation and by user code, which also assigns to the raw object      *)
(***************************************************************************)
NextTraps ==
    \/ \E k \in Keys, l \in {"c1", NoListener} : Get(k, l)
    \/ \E k \in Keys, l \in {"c1", NoListener} : Has(k, l)
    \/ \E k \in Keys, l \in {"c1", NoListener} : GetOwnPropertyDescriptor(k, l)
    \/ \E l \in {"c1", NoListener} : OwnKeys(l)
    \/ \E l \in {"c1", NoListener} : GetPrototypeOf(l)
    \/ \E l \in {"c1", NoListener} : IsExtensible(l)
    \/ \E k \in Keys : \E v \in WriteVals(k) : Set(k, v)
    \/ \E k \in Keys : \E desc \in DescInputs(k) : DefineProperty(k, desc)
    \/ \E k \in Keys : DeleteProperty(k)
    \/ \E np \in Protos : SetPrototypeOf(np)
    \/ PreventExtensions
    \/ \E k \in ForceTarget : Update(k)
    \/ \E k \in Keys : \E v \in WriteVals(k) : RawSet(k, v)
    \/ Rerun("c1")
    \/ Dispose("c1")

SpecTraps == Init /\ [][NextTraps]_vars

(***************************************************************************)
(* Specification of the tracking proxy whose user opts keys out of         *)
(* reactivity, by writing null into the store; one computation             *)
(***************************************************************************)
NextOptOut ==
    \/ \E k \in Keys : OptOut(k)
    \/ \E k \in Keys, l \in {"c1", NoListener} : Get(k, l)
    \/ \E k \in Keys : Has(k, "c1")
    \/ OwnKeys("c1")
    \/ \E k \in Keys : \E v \in WriteVals(k) : Set(k, v)
    \/ \E k \in Keys : \E desc \in DescInputs(k) : DefineProperty(k, desc)
    \/ \E k \in Keys : DeleteProperty(k)
    \/ \E np \in Protos : SetPrototypeOf(np)
    \/ \E k \in ForceTarget : Update(k)
    \/ Rerun("c1")
    \/ Dispose("c1")

SpecOptOut == Init /\ [][NextOptOut]_vars

(***************************************************************************)
(* createUnownedMemo(f, opts, fallback): the accessor and its closure      *)
(* (count, running, memo, disp), read by user code and by computations     *)
(***************************************************************************)

\* What f does when it is evaluated: it returns a value, it throws, or it reads
\* the accessor it is memoized by.
Modes == {"value", "throws", "self"}

\* `finally { running = false; }`: the marker when the accessor is left, by a
\* return or by an exception. (with a variant that clears it on a return only)
exitMarker_OnReturn(threw) == threw
exitMarker(threw) == FALSE

\* The accessor, called under owner l while f behaves as `mode` and would return v:
\* the closure after the call, what it returned or threw, how many times f ran,
\* and how the read ended. A read made while the marker is set returns the
\* fallback, or throws CircularGetterError if there is none, and leaves the
\* closure alone. The native memo evaluates f when it is created; if f throws
\* there, createRoot throws and `memo` stays unset.
RECURSIVE unownedCall(_, _, _, _)
unownedCall(u, l, mode, v) ==
    IF u.running
    THEN IF u.fallback
         THEN [u |-> u, threw |-> "none", out |-> Undefined, evals |-> 0, end |-> "fallback"]
         ELSE [u |-> u, threw |-> "CircularGetterError", out |-> Undefined, evals |-> 0,
               end |-> "CircularGetterError"]
    ELSE LET u1 == [u EXCEPT !.running = TRUE]
             fr == CASE mode = "value" -> [threw |-> "none", out |-> v, end |-> "value"]
                     [] mode = "throws" -> [threw |-> "Error", out |-> Undefined, end |-> "Error"]
                     [] OTHER -> LET n == unownedCall(u1, l, mode, v)
                                 IN  [threw |-> n.threw, out |-> n.out, end |-> n.end]
             body ==
                IF l = NoListener
                THEN IF u.memo
                     THEN [u |-> u1, threw |-> "none", out |-> u.val, evals |-> 0, end |-> "value"]
                     ELSE [u |-> u1, threw |-> fr.threw, out |-> fr.out, evals |-> 1, end |-> fr.end]
                ELSE IF ~u.memo /\ fr.threw # "none"
                THEN [u |-> u1, threw |-> fr.threw, out |-> Undefined, evals |-> 1, end |-> fr.end]
                ELSE LET u2 == IF u.memo THEN u1
                               ELSE [u1 EXCEPT !.memo = TRUE, !.val = fr.out, !.roots = @ + 1]
                     IN  [u |-> [u2 EXCEPT !.count = @ + 1, !.pending[l] = @ + 1],
                          threw |-> "none", out |-> u2.val,
                          evals |-> IF u.memo THEN 0 ELSE 1,
                          end |-> IF u.memo THEN "value" ELSE fr.end]
         IN  [body EXCEPT !.u.running = exitMarker(body.threw # "none")]

\* The cleanup the accessor registers on each owner that reads it:
\* `--count || (disp!(), memo = disp = undefined)`. (with a variant that disposes
\* whatever the count)
onCleanupRun_Always(u) ==
    [u EXCEPT !.count = @ - 1, !.memo = FALSE, !.val = Undefined, !.disposals = @ + 1]
onCleanupRun(u) ==
    IF u.count - 1 = 0
    THEN [u EXCEPT !.count = 0, !.memo = FALSE, !.val = Undefined, !.disposals = @ + 1]
    ELSE [u EXCEPT !.count = @ - 1]

\* The n cleanups the accessor registered on one owner, run one after the other.
RECURSIVE runCleanups(_, _)
runCleanups(u, n) == IF n = 0 THEN u ELSE runCleanups(onCleanupRun(u), n - 1)

UnownedStep(u, rec) ==
    /\ unowned' = u
    /\ last' = rec
    /\ UNCHANGED <<own, proto, ext, store, count, regs, queue, list, atom>>
    /\ UNCHANGED memoVars
    /\ UNCHANGED attVars

\* createUnownedMemo(f, opts) or createUnownedMemo(f, opts, fallback)
CreateUnownedMemo(fb) ==
    /\ ~unowned.made
    /\ UnownedStep([NoAccessor EXCEPT !.made = TRUE, !.fallback = fb],
                   [NoOp EXCEPT !.op = "createUnownedMemo"])

\* The accessor is called by user code (no owner) or by a computation.
UnownedRead(l, mode, v) ==
    /\ unowned.made
    /\ LET r == unownedCall(unowned, l, mode, v)
       IN  /\ r.u.count <= MaxReaders
           /\ r.u.roots <= MaxMemos
           /\ UnownedStep([r.u EXCEPT !.before = unowned.end, !.end = r.end],
                          [NoOp EXCEPT !.op = "unowned", !.l = l, !.f = mode, !.out = r.out,
                                       !.evals = r.evals, !.threw = r.threw])

\* The owner c is re-run or disposed: the cleanups registered on it run.
OwnerCleanup(c) ==
    /\ unowned.pending[c] > 0
    /\ UnownedStep([runCleanups(unowned, unowned.pending[c]) EXCEPT !.pending[c] = 0],
                   [NoOp EXCEPT !.op = "cleanup", !.l = c])

NextUnowned ==
    \/ \E fb \in BOOLEAN : CreateUnownedMemo(fb)
    \/ \E l \in Listeners, mode \in Modes, v \in Vals : UnownedRead(l, mode, v)
    \/ \E c \in Comps : OwnerCleanup(c)

SpecUnowned == Init /\ [][NextUnowned]_vars

(***************************************************************************)
(* Properties of the tracking proxy                                        *)
(***************************************************************************)
ReadOps == {"get", "has", "getOwnPropertyDescriptor", "ownKeys", "getPrototypeOf", "isExtensible"}
WriteOps == {"set", "batch"}

\* The last operation was a read made while computation c collects dependencies.
TrackedRead == last.op \in ReadOps /\ last.l \in Comps

\* Some attribute or the value supplied by `next` is not what `prev` has.
Differs(next, prev) ==
    \E f \in DOMAIN next : f \notin DOMAIN prev \/ next[f] # prev[f]

\* The assignment just made wrote a value that is not the one the property had.
WroteOther ==
    /\ last.op \in WriteOps /\ last.ok
    /\ ~last.hadOwn \/ last.first # last.prev.value \/ last.out # last.first

\* C2 (tracking minimality): after a write through the proxy to k, a computation that
\* holds no registration on k and none on a structural key is not queued.
C2_TrackingMinimality ==
    last.op \in WriteOps =>
        \A c \in Comps :
            (regs[c][last.k] = 0 /\ \A i \in Internal : regs[c][i] = 0) => c \notin queue

\* A write to an existing data property queued the computation that read it and left
\* alone the one that read another key.
C2_Witness ==
    /\ last.op = "set" /\ last.hadOwn /\ IsDataDescriptor(last.prev)
    /\ \E c, d \in Comps :
        /\ c \in queue /\ regs[c][last.k] > 0
        /\ d \notin queue /\ regs[d][last.k] = 0 /\ Held(regs, d) > 0

\* C3 (write notification completeness): after a write through the proxy of a value
\* that differs from the one k had, every computation registered on k is queued, and
\* the whole batch, however many writes it holds, is one pass of the engine.
C3_WriteNotification ==
    /\ WroteOther => \A c \in Comps : regs[c][last.k] > 0 => c \in queue
    /\ last.op \in WriteOps => last.passes <= 1

\* Two different values were written to k in one batch, and its reader was queued in
\* one pass.
C3_Witness ==
    /\ last.op = "batch" /\ last.ok /\ last.hadOwn
    /\ last.first # last.prev.value /\ last.out # last.first
    /\ \E c \in Comps : regs[c][last.k] > 0 /\ c \in queue
    /\ last.passes = 1

\* C4 (defineProperty notifications): a definition that succeeds, an assignment
\* included, calls update on k iff k was not an own key or the descriptor given
\* differs from the previous one in a supplied attribute or in the value, and calls
\* update on the shape key iff k was not an own key.
C4_DefineNotifies ==
    (last.op \in {"defineProperty", "set"} /\ last.ok) =>
        /\ last.k \in last.calls <=> (~last.hadOwn \/ Differs(last.desc, last.prev))
        /\ SHAPE \in last.calls <=> ~last.hadOwn
        /\ last.calls \subseteq {last.k, SHAPE}

\* An assignment of the value the property already has succeeded and notified
\* nothing although a computation reads the key.
C4_Witness ==
    /\ last.op = "set" /\ last.ok /\ last.hadOwn
    /\ last.out = last.prev.value
    /\ last.calls = {}
    /\ \E c \in Comps : regs[c][last.k] > 0 /\ c \notin queue

\* C5 (no allocation without a reader): a step gives the store a new entry only if
\* it is a read made while a computation collects dependencies; mutations, forced
\* updates and reads with no listener leave the store without new entries.
C5_StoreGrowsOnlyByTrackedRead ==
    [][(\E k \in ForceTarget : store[k] = StoreUndefined /\ store'[k] # StoreUndefined)
         => (last'.op \in ReadOps /\ last'.l \in Comps)]_vars

\* A key was created by an assignment and then read with no listener, and the store
\* is still empty.
C5_Witness ==
    /\ last.op = "get" /\ last.l = NoListener /\ last.k = "b"
    /\ HasOwn(own, "b") /\ own["b"] = FullDesc(1)
    /\ \A k \in ForceTarget : store[k] = StoreUndefined

\* C6 (delete): deleting a key that is not an own key succeeds and calls no update;
\* deleting an own key calls update on the key and on the shape key, in one pass.
C6_DeleteNotifies ==
    last.op = "deleteProperty" =>
        /\ ~last.hadOwn => (last.ok /\ last.calls = {} /\ queue = {})
        /\ (last.hadOwn /\ last.ok) => (last.calls = {last.k, SHAPE} /\ last.passes <= 1)

\* An own key was deleted while one computation read it and another enumerated the
\* keys: both are queued by one pass.
C6_Witness ==
    /\ last.op = "deleteProperty" /\ last.hadOwn /\ last.ok
    /\ \E c, d \in Comps : c # d /\ regs[c][last.k] > 0 /\ regs[d][SHAPE] > 0
    /\ queue = Comps
    /\ last.passes = 1

\* C7 as stated: both enumerating the keys and checking a key with `in` register the
\* running computation on the shape key.
C7_HasTracksShape ==
    (last.op \in {"has", "ownKeys"} /\ last.l \in Comps) => regs[last.l][SHAPE] >= 1

\* C7 (what holds): enumerating the keys registers the computation on the shape key;
\* checking k with `in` registers it on k, and on nothing else.
C7_HasTracksKey ==
    /\ (last.op = "ownKeys" /\ last.l \in Comps) => regs[last.l][SHAPE] >= 1
    /\ (last.op = "has" /\ last.l \in Comps) =>
          /\ regs[last.l][last.k] >= 1
          /\ Held(regs, last.l) = 1 => regs[last.l][SHAPE] = 0

\* A computation whose only read is `k in proxy` holds one registration, on k.
C7_Witness ==
    /\ last.op = "has" /\ last.l \in Comps
    /\ Held(regs, last.l) = 1 /\ regs[last.l][last.k] = 1 /\ regs[last.l][SHAPE] = 0

\* C8 (prototype change): a prototype change that changes the chain calls update, in
\* one pass, on the prototype key, the shape key and every key that has an entry in
\* the store and is not an own key; on no own key.
C8_ProtoChangeNotifies ==
    (last.op = "setPrototypeOf" /\ last.changed) =>
        /\ last.calls = {PROTO, SHAPE}
                         \cup {k \in ForceTarget : store[k] # StoreUndefined /\ ~HasOwn(own, k)}
        /\ \A k \in Keys : HasOwn(own, k) => k \notin last.calls
        /\ last.passes <= 1

\* The prototype changed while one computation read an inherited key and another an
\* own key: the first is queued, the second is not.
C8_Witness ==
    /\ last.op = "setPrototypeOf" /\ last.changed
    /\ ~HasOwn(own, "b") /\ HasOwn(own, "a")
    /\ \E c, d \in Comps : regs[c]["b"] > 0 /\ c \in queue /\ regs[d]["a"] > 0 /\ d \notin queue
    /\ "b" \in last.calls /\ "a" \notin last.calls
    /\ last.passes = 1

\* The last operation was a read of a key that resolves to an accessor, made while a
\* computation collects dependencies.
TrackedAccessorRead ==
    /\ last.op = "get" /\ last.l \in Comps
    /\ IsAccessorDescriptor(Lookup(own, proto, last.k))

Registrations(rg, k) == rg["c1"][k] + rg["c2"][k] + rg[MemoNode][k]

\* C11 (reference-counted eviction): in every state the store holds a forcer for k
\* iff the count of k is at least 1, the count is the number of registrations on k
\* whose computation has not been cleaned, and a key without a live registration has
\* no entry: the cleanup of the last one removes it in the same step.
C11_RefCountedEviction ==
    \A k \in ForceTarget :
        /\ store[k] = StoreForcer <=> count[k] >= 1
        /\ count[k] = Registrations(regs, k)
        /\ Registrations(regs, k) = 0 => store[k] = StoreUndefined

\* Two computations read `a`; one was disposed and the forcer stays, with count 1,
\* for the other.
C11_Witness ==
    /\ last.op = "dispose"
    /\ store["a"] = StoreForcer /\ count["a"] = 1
    /\ \E c \in Comps : regs[c]["a"] = 1 /\ Held(regs, last.l) = 0 /\ c # last.l

(***************************************************************************)
(* Properties of the tracking proxy with keys opted out                    *)
(***************************************************************************)
\* C10 (the null sentinel is permanent): no step turns a null entry of the store into
\* a forcer or removes it.
C10_NullIsPermanent ==
    [][\A k \in ForceTarget : store[k] = StoreNull => store'[k] = StoreNull]_vars

(***************************************************************************)
(* MemoHandler                                                             *)
(***************************************************************************)
\* The reactive part of the state the MemoHandler methods read and write.
Mx == [store |-> store, count |-> count, regs |-> regs,
       cache |-> cache, memo |-> memo, readers |-> readers]

\* this.track(t, k) on that state.
trackX(x, l, k) ==
    LET st == track([store |-> x.store, count |-> x.count, regs |-> x.regs], l, k)
    IN  [x EXCEPT !.store = st.store, !.count = st.count, !.regs = st.regs]

\* The accessor in the cache holds a native memo.
HasMemo(m) == m.live /\ ~m.orphan

\* What the getter computes when called on the proxy: get b() { return this.a }.
\* The read of `a` comes back through MemoHandler.get, finds no getter for `a`,
\* marks it in the cache and reads it from the raw object.
GetterValue(o, p) == ReflectGet(o, p, "a")
getterRun(x, l) == trackX([x EXCEPT !.cache["a"] = CacheNull], l, "a")

\* MemoHandler.get for a key the cache marks null, or for which getGetter finds no
\* getter: `cache[k] = null, super.get(t, k, r)`.
memoGetPlain(x, o, p, k, l) ==
    LET x1 == [x EXCEPT !.cache[k] = CacheNull]
        x2 == IF IsAccessorDescriptor(Lookup(o, p, k)) THEN getterRun(x1, l) ELSE x1
    IN  [x |-> trackX(x2, l, k), out |-> ReflectGet(o, p, k),
         evals |-> IF IsAccessorDescriptor(Lookup(o, p, k)) THEN 1 ELSE 0]

\* Variant of createUnownedMemo that calls f whenever there is no owner: `f()` for
\* `(memo ? memo : f)()`.
createUnownedMemo_NoOwnerCallsF(x, o, p, l) ==
    IF l = NoListener
    THEN [x |-> getterRun(x, NoListener), out |-> GetterValue(o, p), evals |-> 1]
    ELSE LET x1 == IF HasMemo(x.memo) THEN x
                   ELSE [getterRun(x, MemoNode) EXCEPT
                            !.memo = [live |-> TRUE, val |-> GetterValue(o, p), orphan |-> FALSE]]
         IN  [x |-> [x1 EXCEPT !.readers[l] = @ + 1], out |-> x1.memo.val,
              evals |-> IF HasMemo(x.memo) THEN 0 ELSE 1]

\* createUnownedMemo(f)(): with no owner `(memo ? memo : f)()`; with an owner the
\* native memo is created if there is none (it evaluates f as its own listener),
\* and the owner is counted as a reader.
createUnownedMemo(x, o, p, l) ==
    IF l = NoListener
    THEN IF HasMemo(x.memo)
         THEN [x |-> x, out |-> x.memo.val, evals |-> 0]
         ELSE [x |-> getterRun(x, NoListener), out |-> GetterValue(o, p), evals |-> 1]
    ELSE LET x1 == IF HasMemo(x.memo) THEN x
                   ELSE [getterRun(x, MemoNode) EXCEPT
                            !.memo = [live |-> TRUE, val |-> GetterValue(o, p), orphan |-> FALSE]]
         IN  [x |-> [x1 EXCEPT !.readers[l] = @ + 1], out |-> x1.memo.val,
              evals |-> IF HasMemo(x.memo) THEN 0 ELSE 1]

\* MemoHandler.get for a key with a getter: memoize(t, k, get) if the cache has no
\* accessor yet, then `this.track(t, k); return f()`.
memoGetMemo(x, o, p, k, l) ==
    createUnownedMemo(trackX([x EXCEPT !.cache[k] = CacheMemo], l, k), o, p, l)

\* Whether MemoHandler.get goes through the memoized accessor.
UsesMemo(ch, o, p, k) ==
    ch[k] = CacheMemo \/ (ch[k] = CacheUndefined /\ getGetter(o, p, k) # "none")

\* MemoHandler.get(t, k, r), r the proxy
MemoGet(k, l) ==
    /\ CanRead(l)
    /\ LET r == IF UsesMemo(cache, own, proto, k)
                THEN memoGetMemo(Mx, own, proto, k, l)
                ELSE memoGetPlain(Mx, own, proto, k, l)
       IN  /\ Total(r.x.regs) <= MaxTrack
           \* one native memo at a time
           /\ (UsesMemo(cache, own, proto, k) /\ l # NoListener /\ ~HasMemo(memo)) => ~memo.live
           /\ store' = r.x.store /\ count' = r.x.count /\ regs' = r.x.regs
           /\ cache' = r.x.cache /\ memo' = r.x.memo /\ readers' = r.x.readers
           /\ last' = [NoOp EXCEPT !.op = "get", !.k = k, !.l = l, !.out = r.out,
                                    !.evals = r.evals]
    /\ UNCHANGED <<own, proto, ext, queue>>
    /\ UNCHANGED attVars
    /\ UNCHANGED list
    /\ UNCHANGED atom
    /\ UNCHANGED unowned

\* MemoHandler.memoize(t, k, f): `cache[k] = () => this.circular(t, k, f)`, then
\* `cache[k] = createUnownedMemo(f.bind(proxy), config)`, which returns the accessor
\* without calling f.
memoize(ch, k) ==
    LET ch1 == [ch EXCEPT ![k] = CacheCircular]
    IN  [ch1 EXCEPT ![k] = CacheMemo]

\* The getter `get b() { return this.b + 1 }` running on the proxy with no owner, as
\* frame d of the stack: its read of `b` goes through MemoHandler.get, which calls
\* what the cache holds for `b`: the delegate throws CircularGetterError, the
\* accessor (no owner, no native memo) calls the getter again, and so does
\* super.get for a null entry.
RECURSIVE selfRead(_, _)
selfRead(ch, d) ==
    IF ch["b"] = CacheCircular THEN [threw |-> "CircularGetterError", evals |-> d]
    ELSE IF d = StackDepth THEN [threw |-> "RangeError", evals |-> d]
    ELSE selfRead(ch, d + 1)

\* MemoHandler.get(t, "b", proxy) by user code, with no owner, when the getter of
\* `b` reads `b`.
MemoGetSelf ==
    /\ CanRead(NoListener)
    /\ getGetter(own, proto, "b") = "gSelf"
    /\ LET ch == IF cache["b"] = CacheUndefined THEN memoize(cache, "b") ELSE cache
           r == selfRead(ch, 1)
       IN  /\ cache' = ch
           /\ last' = [NoOp EXCEPT !.op = "getSelf", !.k = "b", !.threw = r.threw,
                                    !.evals = r.evals]
    /\ UNCHANGED <<own, proto, ext, queue, store, count, regs, memo, readers>>
    /\ UNCHANGED attVars
    /\ UNCHANGED list
    /\ UNCHANGED atom
    /\ UNCHANGED unowned

\* MemoHandler.get(t, "b", proxy) when the getter of `b` throws: for a null entry
\* super.get, where Reflect.get throws before track; otherwise memoize if the cache
\* has no accessor, track(t, k), and f(), which throws before the native memo is
\* assigned and before the reader is counted.
memoGetThrow(x, l) ==
    IF x.cache["b"] = CacheNull THEN x
    ELSE trackX([x EXCEPT !.cache = IF x.cache["b"] = CacheUndefined
                                    THEN memoize(x.cache, "b") ELSE x.cache], l, "b")

MemoGetThrow(l) ==
    /\ CanRead(l)
    /\ getGetter(own, proto, "b") = "gThrow"
    /\ LET x == memoGetThrow(Mx, l)
       IN  /\ Total(x.regs) <= MaxTrack
           /\ store' = x.store /\ count' = x.count /\ regs' = x.regs
           /\ cache' = x.cache /\ memo' = x.memo /\ readers' = x.readers
           /\ last' = [NoOp EXCEPT !.op = "getThrow", !.k = "b", !.l = l, !.threw = "Error",
                                    !.evals = 1]
    /\ UNCHANGED <<own, proto, ext, queue>>
    /\ UNCHANGED attVars
    /\ UNCHANGED list
    /\ UNCHANGED atom
    /\ UNCHANGED unowned

\* The objects user code creates with the proxy as their prototype:
\* Object.create(proxy) and Object.create(proxy, { a: { value: 3 } }).
Receivers == {"child", "childA"}
ChildA == 3

\* Reflect.get(t, k, r) with a receiver r that is one of those objects: a getter
\* runs with r as `this`, and reads r.a.
ReflectGetReceiver(o, p, k, rcv) ==
    LET d == Lookup(o, p, k) IN
    IF IsAbsent(d) THEN Undefined
    ELSE IF IsAccessorDescriptor(d)
         THEN IF rcv = "childA" THEN ChildA ELSE ReflectGet(o, p, "a")
         ELSE d.value

\* Variant of the receiver test of MemoHandler.get: the receiver is not looked at.
memoGetReceiver_IgnoresReceiver(x, o, p, k, l, rcv) ==
    IF UsesMemo(x.cache, o, p, k) THEN memoGetMemo(x, o, p, k, l) ELSE memoGetPlain(x, o, p, k, l)

\* MemoHandler.get(t, k, r) with r not the proxy: `return super.get(t, k, r)`. The
\* read of `a` a getter makes on an object that has no own `a` comes back through
\* this trap, with the same receiver.
memoGetReceiver(x, o, p, k, l, rcv) ==
    LET acc == IsAccessorDescriptor(Lookup(o, p, k))
        x1 == IF acc /\ rcv = "child" THEN trackX(x, l, "a") ELSE x
    IN  [x |-> trackX(x1, l, k), out |-> ReflectGetReceiver(o, p, k, rcv),
         evals |-> IF acc THEN 1 ELSE 0]

\* A read of k on an object whose prototype is the proxy; it reaches the trap when
\* the object has no own k.
MemoGetReceiver(k, l, rcv) ==
    /\ CanRead(l)
    /\ ~(k = "a" /\ rcv = "childA")
    /\ LET r == memoGetReceiver(Mx, own, proto, k, l, rcv)
       IN  /\ Total(r.x.regs) <= MaxTrack
           /\ store' = r.x.store /\ count' = r.x.count /\ regs' = r.x.regs
           /\ cache' = r.x.cache /\ memo' = r.x.memo /\ readers' = r.x.readers
           /\ last' = [NoOp EXCEPT !.op = "getReceiver", !.k = k, !.l = l, !.out = r.out,
                                    !.evals = r.evals, !.r = rcv]
    /\ UNCHANGED <<own, proto, ext, queue>>
    /\ UNCHANGED attVars
    /\ UNCHANGED list
    /\ UNCHANGED atom
    /\ UNCHANGED unowned

\* A mutating trap of MemoHandler: `ch` is the cache after it. The native memo is a
\* computation the engine re-evaluates in the same pass when a key it read is
\* updated; its readers are queued when its value changed under compare.
MemoMutates(o, p, e, groups, ch, rec) ==
    LET sched == Scheduled(Rx, groups)
        reeval == MemoNode \in sched
        val == IF reeval THEN GetterValue(o, p) ELSE memo.val
        woken == IF reeval /\ ~compare(val, memo.val)
                 THEN {c \in Comps : readers[c] > 0} ELSE {}
    IN  /\ own' = o /\ proto' = p /\ ext' = e
        /\ cache' = ch
        /\ memo' = [memo EXCEPT !.val = val,
                                !.orphan = @ \/ (memo.live /\ cache["b"] = CacheMemo
                                                           /\ ch["b"] # CacheMemo)]
        /\ queue' = queue \cup (sched \cap Comps) \cup woken
        /\ last' = [rec EXCEPT !.calls = Calls(groups), !.passes = Passes(Rx, groups),
                               !.evals = IF reeval THEN 1 ELSE 0]
        /\ UNCHANGED <<store, count, regs, readers>>
        /\ UNCHANGED attVars
        /\ UNCHANGED list
        /\ UNCHANGED atom
        /\ UNCHANGED unowned

\* The body of MemoHandler.defineProperty: [ok, own, groups, cache].
memoDefineProperty(o, e, ch, k, desc) ==
    LET r == defineProperty(o, e, k, desc)
    IN  [ok |-> r.ok, own |-> r.own, groups |-> r.groups,
         cache |-> IF ~r.ok THEN ch
                   ELSE IF "get" \in DOMAIN desc THEN [ch EXCEPT ![k] = CacheUndefined]
                   ELSE [ch EXCEPT ![k] = CacheNull]]

\* MemoHandler.defineProperty(t, k, desc)
MemoDefineProperty(k, desc) ==
    /\ CanAct
    /\ LET r == memoDefineProperty(own, ext, cache, k, desc)
       IN  MemoMutates(r.own, proto, ext, r.groups, r.cache,
                       [NoOp EXCEPT !.op = "defineProperty", !.k = k, !.ok = r.ok,
                                    !.hadOwn = HasOwn(own, k), !.desc = desc, !.prev = own[k]])

\* The inherited set trap on a MemoHandler: the assignment comes back through
\* MemoHandler.defineProperty.
MemoSet(k, v) ==
    /\ CanAct
    /\ LET desc == SetDesc(own, proto, k, v)
           r == IF IsAbsent(desc)
                THEN [ok |-> FALSE, own |-> own, groups |-> <<>>, cache |-> cache]
                ELSE memoDefineProperty(own, ext, cache, k, desc)
       IN  MemoMutates(r.own, proto, ext, r.groups, r.cache,
                       [NoOp EXCEPT !.op = "set", !.k = k, !.ok = r.ok, !.out = v, !.first = v,
                                    !.hadOwn = HasOwn(own, k), !.desc = desc, !.prev = own[k]])

\* MemoHandler.deleteProperty(t, k)
MemoDeleteProperty(k) ==
    /\ CanAct
    /\ LET r == ReflectDeleteProperty(own, k)
           gone == r.ok /\ HasOwn(own, k)
       IN  MemoMutates(r.own, proto, ext, IF gone THEN deletePropertyCalls(k) ELSE <<>>,
                       IF gone THEN [cache EXCEPT ![k] = CacheUndefined] ELSE cache,
                       [NoOp EXCEPT !.op = "deleteProperty", !.k = k, !.ok = r.ok,
                                    !.hadOwn = HasOwn(own, k), !.prev = own[k]])

\* The cache after MemoHandler.setPrototypeOf: `for (const k of Reflect.ownKeys(store))
\* if (!Object.hasOwn(t, k)) delete cache[k]`.
memoSetPrototypeOfCache(st, o, ch) ==
    [k \in Keys |-> IF st.store[k] # StoreUndefined /\ ~HasOwn(o, k)
                    THEN CacheUndefined ELSE ch[k]]

\* MemoHandler.setPrototypeOf(t, proto, force = false)
MemoSetPrototypeOf(np) ==
    /\ CanAct
    /\ IF sameProto(np, proto)
       THEN MemoMutates(own, proto, ext, <<>>, cache,
                        [NoOp EXCEPT !.op = "setPrototypeOf", !.k = PROTO, !.ok = TRUE])
       ELSE LET out == ReflectSetPrototypeOf(proto, ext, np)
            IN  MemoMutates(own, IF out THEN np ELSE proto, ext, setPrototypeOfCalls(Rx, own),
                            memoSetPrototypeOfCache(Rx, own, cache),
                            [NoOp EXCEPT !.op = "setPrototypeOf", !.k = PROTO, !.ok = out,
                                         !.changed = out])

(***************************************************************************)
(* Specification of the memoizing proxy (MemoHandler.create(t)), read by   *)
(* user code and by one computation                                        *)
(***************************************************************************)
NextMemo ==
    \/ \E k \in Keys, l \in {"c1", NoListener} : MemoGet(k, l)
    \/ \E k \in Keys, l \in {"c1", NoListener}, rcv \in Receivers : MemoGetReceiver(k, l, rcv)
    \/ \E k \in Keys : \E v \in WriteVals(k) : MemoSet(k, v)
    \/ \E k \in Keys : \E desc \in DescInputs(k) : MemoDefineProperty(k, desc)
    \/ \E k \in Keys : MemoDeleteProperty(k)
    \/ \E np \in Protos : MemoSetPrototypeOf(np)
    \/ PreventExtensions
    \/ Rerun("c1")
    \/ Dispose("c1")

SpecMemo == Init /\ [][NextMemo]_vars

\* MemoHandler.resetMemo(obj, k): `delete this.getCache(obj)[k]`, the cache after
\* it. (with a variant that leaves the cache as it is)
resetMemo_KeepsCache(ch, k) == ch
resetMemo(ch, k) == [ch EXCEPT ![k] = CacheUndefined]

\* MemoHandler.resetMemo(obj, k), called by user code: the cache entry goes, then
\* `return this.prototype.update(obj, k)`, which is true when the store holds a
\* forcer for k.
ResetMemo(k) ==
    /\ CanAct
    /\ MemoMutates(own, proto, ext, <<{k}>>, resetMemo(cache, k),
                   [NoOp EXCEPT !.op = "resetMemo", !.k = k, !.ok = (store[k] = StoreForcer)])

(***************************************************************************)
(* Specification of the memoizing proxy whose user resets the memo of a    *)
(* key; the getter of `b` is read by user code and by one computation      *)
(***************************************************************************)
NextReset ==
    \/ \E k \in Keys, l \in {"c1", NoListener} : MemoGet(k, l)
    \/ \E k \in Keys : ResetMemo(k)
    \/ MemoDefineProperty("b", AccDesc)
    \/ \E v \in Vals : MemoSet("a", v)
    \/ Rerun("c1")
    \/ Dispose("c1")

SpecReset == Init /\ [][NextReset]_vars

\* ReactiveHandler.preventExtensions(t), which MemoHandler inherits:
\* `if (!Reflect.preventExtensions(t)) return false; this.update(t, IS_EXTENSIBLE);
\* return true`. An ordinary raw object always accepts; `accepts` is false for a raw
\* object whose own [[PreventExtensions]] answers false (a proxy with such a trap).
preventExtensions(e, accepts) ==
    IF ~accepts THEN [ok |-> FALSE, ext |-> e, groups |-> <<>>]
    ELSE [ok |-> TRUE, ext |-> FALSE, groups |-> preventExtensionsCalls]

\* Reflect.preventExtensions(proxy) on a memoizing proxy
MemoPreventExtensions(accepts) ==
    /\ CanAct
    /\ LET r == preventExtensions(ext, accepts)
       IN  MemoMutates(own, proto, r.ext, r.groups, cache,
                       [NoOp EXCEPT !.op = "preventExtensions", !.k = IS_EXTENSIBLE,
                                    !.ok = r.ok])

(***************************************************************************)
(* Specification of the memoizing proxy whose raw object rejects           *)
(* mutations: a locked property, a raw object that is not extensible, a    *)
(* raw object that refuses to become so                                    *)
(***************************************************************************)
NextRejects ==
    \/ \E k \in Keys, l \in {"c1", NoListener} : MemoGet(k, l)
    \/ \E k \in Keys : \E desc \in DescInputs(k) : MemoDefineProperty(k, desc)
    \/ \E k \in Keys : MemoDeleteProperty(k)
    \/ \E accepts \in BOOLEAN : MemoPreventExtensions(accepts)
    \/ Rerun("c1")

SpecRejects == Init /\ [][NextRejects]_vars

(***************************************************************************)
(* Specification of the memoizing proxy on whose key `b` user code defines *)
(* a getter that reads `b` itself, or a getter that throws                 *)
(***************************************************************************)
NextGetters ==
    \/ \E desc \in {AccSelf, AccThrow} : MemoDefineProperty("b", desc)
    \/ MemoGetSelf
    \/ \E l \in {"c1", NoListener} : MemoGetThrow(l)
    \/ \E k \in Keys, l \in {"c1", NoListener} :
          getGetter(own, proto, k) = "none" /\ MemoGet(k, l)
    \/ \E k \in Keys : \E v \in WriteVals(k) : MemoSet(k, v)
    \/ \E desc \in DescInputs("a") : MemoDefineProperty("a", desc)
    \/ \E k \in Keys : MemoDeleteProperty(k)
    \/ Rerun("c1")
    \/ Dispose("c1")

SpecGetters == Init /\ [][NextGetters]_vars

(***************************************************************************)
(* Attachment of proxies to a raw object `o`                               *)
(***************************************************************************)

FacadeIds == 1..Len(facades)

\* What #proxy of `o` holds: RawData.#proxy once Reactive.create has stamped `o`,
\* TargetHandler.#proxy otherwise.
Attached == IF rawProxy # NoField THEN rawProxy ELSE targetProxy

\* A proxy as created: its class, the keys its own store holds a cell for, what
\* has happened to its attachment since (a detaching call removed it, or another
\* proxy was attached over it), and its scope: the root made by createRoot at
\* construction, with the cleanups registered under it (so far, and still to run),
\* the cleanups run, and whether the finalization registry has called its disposer.
NewFacade(by) ==
    [by |-> by, tracked |-> {}, detached |-> FALSE, replaced |-> FALSE,
     registered |-> 0, cleanups |-> 0, runs |-> 0, finalized |-> FALSE,
     raw |-> RawObj]

\* One program uses one of the two: `Reactive` (RawData.ProxyData) or the handler
\* classes built on BaseHandler.
OnlyReactive == targetProxy = NoField /\ \A i \in FacadeIds : facades[i].by = "Reactive"
OnlyBase == rawProxy = NoField /\ \A i \in FacadeIds : facades[i].by = "Base"

\* Reactive.create(obj): the attached proxy if there is one; `new RawData(obj)`
\* throws when #proxy is already installed on `obj` (it holds `undefined` after
\* dispose); otherwise a new proxy with `#store = Object.create(null)`.
\* (with a variant that creates a proxy on every call)
reactiveCreate_AlwaysNew(rp, fs) ==
    [threw |-> "none", out |-> Len(fs) + 1, rawProxy |-> Len(fs) + 1,
     facades |-> Append(fs, NewFacade("Reactive"))]

reactiveCreate(rp, fs) ==
    IF rp > NoFacade
    THEN [threw |-> "none", out |-> rp, rawProxy |-> rp, facades |-> fs]
    ELSE IF rp = NoFacade
    THEN [threw |-> "TypeError", out |-> NoFacade, rawProxy |-> rp, facades |-> fs]
    ELSE [threw |-> "none", out |-> Len(fs) + 1, rawProxy |-> Len(fs) + 1,
          facades |-> Append(fs, NewFacade("Reactive"))]

ReactiveCreate ==
    /\ OnlyReactive
    /\ Len(facades) < MaxFacades
    /\ LET r == reactiveCreate(rawProxy, facades) IN
        /\ rawProxy' = r.rawProxy
        /\ facades' = r.facades
        /\ last' = [NoOp EXCEPT !.op = "Reactive.create", !.out = r.out,
                                !.threw = r.threw, !.att = rawProxy]
    /\ UNCHANGED <<own, proto, ext, store, count, regs, queue, targetProxy>>
    /\ UNCHANGED memoVars
    /\ UNCHANGED list
    /\ UNCHANGED atom
    /\ UNCHANGED unowned

\* Reactive.dispose(obj): `obj.#proxy.#raw.#proxy = undefined`. A proxy's own
\* #proxy is itself and its #raw is `o`, so the call reaches `o` through any proxy
\* ever created for it; on `o` itself it needs an attached proxy.
reactiveDispose(rp, fs, obj) ==
    IF obj = RawObj /\ rp <= NoFacade
    THEN [threw |-> "TypeError", rawProxy |-> rp, facades |-> fs]
    ELSE [threw |-> "none", rawProxy |-> NoFacade,
          facades |-> [i \in 1..Len(fs) |->
                          IF i = rp THEN [fs[i] EXCEPT !.detached = TRUE] ELSE fs[i]]]

ReactiveDispose(obj) ==
    /\ OnlyReactive
    /\ LET r == reactiveDispose(rawProxy, facades, obj) IN
        /\ rawProxy' = r.rawProxy
        /\ facades' = r.facades
        /\ last' = [NoOp EXCEPT !.op = "Reactive.dispose", !.out = obj, !.arg = obj,
                                !.threw = r.threw, !.att = rawProxy]
    /\ UNCHANGED <<own, proto, ext, store, count, regs, queue, targetProxy>>
    /\ UNCHANGED memoVars
    /\ UNCHANGED list
    /\ UNCHANGED atom
    /\ UNCHANGED unowned

\* TargetHandler.setProxy(obj, value) on the raw object: assigns the field,
\* installing it first when `obj` has none. (with a variant that leaves an installed field as it is)
setProxy_InstallOnly(tp, fs, value) ==
    [targetProxy |-> IF tp = NoField THEN value ELSE tp,
     facades |-> [i \in 1..Len(fs) |->
                     IF i = value THEN [fs[i] EXCEPT !.detached = FALSE, !.replaced = FALSE]
                     ELSE IF i = tp /\ value = NoFacade THEN [fs[i] EXCEPT !.detached = TRUE]
                     ELSE IF i = tp THEN [fs[i] EXCEPT !.replaced = TRUE]
                     ELSE fs[i]]]
setProxy(tp, fs, value) ==
    [targetProxy |-> value,
     facades |-> [i \in 1..Len(fs) |->
                     IF i = value THEN [fs[i] EXCEPT !.detached = FALSE, !.replaced = FALSE]
                     ELSE IF i = tp /\ value = NoFacade THEN [fs[i] EXCEPT !.detached = TRUE]
                     ELSE IF i = tp THEN [fs[i] EXCEPT !.replaced = TRUE]
                     ELSE fs[i]]]

SetProxy(value) ==
    /\ OnlyBase
    /\ LET r == setProxy(targetProxy, facades, value) IN
        /\ targetProxy' = r.targetProxy
        /\ facades' = r.facades
        /\ last' = [NoOp EXCEPT !.op = "setProxy", !.out = value, !.att = targetProxy]
    /\ UNCHANGED <<own, proto, ext, store, count, regs, queue, rawProxy>>
    /\ UNCHANGED memoVars
    /\ UNCHANGED list
    /\ UNCHANGED atom
    /\ UNCHANGED unowned

\* BaseHandler.create(obj): `new this(obj, new Proxy(obj, this.prototype))`; the
\* constructor attaches the new proxy with setProxy before it stamps the proxy.
baseCreate(tp, fs) ==
    LET r == setProxy(tp, Append(fs, NewFacade("Base")), Len(fs) + 1)
    IN  [out |-> Len(fs) + 1, targetProxy |-> r.targetProxy, facades |-> r.facades]

BaseCreate ==
    /\ OnlyBase
    /\ Len(facades) < MaxFacades
    /\ LET r == baseCreate(targetProxy, facades) IN
        /\ targetProxy' = r.targetProxy
        /\ facades' = r.facades
        /\ last' = [NoOp EXCEPT !.op = "BaseHandler.create", !.out = r.out,
                                !.att = targetProxy]
    /\ UNCHANGED <<own, proto, ext, store, count, regs, queue, rawProxy>>
    /\ UNCHANGED memoVars
    /\ UNCHANGED list
    /\ UNCHANGED atom
    /\ UNCHANGED unowned

\* A read of key k under a tracker through proxy f. The trap receives the target
\* and takes the store from the proxy attached to it (getStore(t)), whichever
\* proxy the read came through; with none attached the lookup throws.
TrackVia(f, k) ==
    /\ f \in FacadeIds
    /\ IF Attached > NoFacade
       THEN /\ facades' = [facades EXCEPT ![Attached].tracked = @ \cup {k}]
            /\ last' = [NoOp EXCEPT !.op = "track", !.k = k, !.out = f, !.att = Attached]
       ELSE /\ facades' = facades
            /\ last' = [NoOp EXCEPT !.op = "track", !.k = k, !.out = f,
                                    !.threw = "TypeError", !.att = Attached]
    /\ UNCHANGED <<own, proto, ext, store, count, regs, queue, rawProxy, targetProxy>>
    /\ UNCHANGED memoVars
    /\ UNCHANGED list
    /\ UNCHANGED atom
    /\ UNCHANGED unowned

\* `obj.#proxy` for the argument of a static method: the raw object's field, or,
\* for a proxy, the field the constructor stamped on the proxy, which holds the
\* proxy itself.
ProxyField(obj) == IF obj = RawObj THEN Attached ELSE obj

\* TargetHandler.getProxy / Reactive.getProxy: `obj.#proxy`, a TypeError on an
\* object that has no such field. (with a variant that answers `undefined` there)
getProxy_Undefined(field) == [threw |-> "none", out |-> IF field = NoField THEN NoFacade ELSE field]
getProxy(field) ==
    IF field = NoField THEN [threw |-> "TypeError", out |-> NoFacade]
    ELSE [threw |-> "none", out |-> field]

GetProxy(obj) ==
    /\ LET r == getProxy(ProxyField(obj)) IN
        last' = [NoOp EXCEPT !.op = "getProxy", !.arg = obj, !.out = r.out,
                             !.threw = r.threw, !.att = Attached]
    /\ UNCHANGED <<own, proto, ext, store, count, regs, queue>>
    /\ UNCHANGED memoVars
    /\ UNCHANGED attVars
    /\ UNCHANGED list
    /\ UNCHANGED atom
    /\ UNCHANGED unowned

\* TargetHandler.is: `#proxy in obj ? obj.#proxy : undefined`.
TargetIs(obj) ==
    /\ OnlyBase
    /\ last' = [NoOp EXCEPT !.op = "is", !.arg = obj, !.att = Attached,
                            !.out = IF ProxyField(obj) = NoField THEN NoFacade
                                    ELSE ProxyField(obj)]
    /\ UNCHANGED <<own, proto, ext, store, count, regs, queue>>
    /\ UNCHANGED memoVars
    /\ UNCHANGED attVars
    /\ UNCHANGED list
    /\ UNCHANGED atom
    /\ UNCHANGED unowned

\* Reactive.is: `#proxy in obj && !!obj.#proxy`, a boolean.
ReactiveIs(obj) ==
    /\ OnlyReactive
    /\ last' = [NoOp EXCEPT !.op = "Reactive.is", !.arg = obj, !.att = Attached,
                            !.ok = (ProxyField(obj) # NoField /\ ProxyField(obj) # NoFacade)]
    /\ UNCHANGED <<own, proto, ext, store, count, regs, queue>>
    /\ UNCHANGED memoVars
    /\ UNCHANGED attVars
    /\ UNCHANGED list
    /\ UNCHANGED atom
    /\ UNCHANGED unowned

\* BaseHandler.getRaw / Reactive.getRaw: `getProxy(obj).#raw`; reading #raw of
\* `undefined` is a TypeError. (with a variant that forgets `.#raw`)
getRaw_NoDeref(fs, field) ==
    IF field <= NoFacade THEN [threw |-> "TypeError", out |-> NoFacade]
    ELSE [threw |-> "none", out |-> field]
getRaw(fs, field) ==
    IF field <= NoFacade THEN [threw |-> "TypeError", out |-> NoFacade]
    ELSE [threw |-> "none", out |-> fs[field].raw]

GetRaw(obj) ==
    /\ LET r == getRaw(facades, ProxyField(obj)) IN
        last' = [NoOp EXCEPT !.op = "getRaw", !.arg = obj, !.out = r.out,
                             !.threw = r.threw, !.att = Attached]
    /\ UNCHANGED <<own, proto, ext, store, count, regs, queue>>
    /\ UNCHANGED memoVars
    /\ UNCHANGED attVars
    /\ UNCHANGED list
    /\ UNCHANGED atom
    /\ UNCHANGED unowned

\* ReactiveHandler.getStore / Reactive.getStore: `getProxy(obj).#store`, the store
\* created with the proxy (named here by the proxy that owns it).
getStore(field) ==
    IF field <= NoFacade THEN [threw |-> "TypeError", out |-> NoFacade]
    ELSE [threw |-> "none", out |-> field]

GetStore(obj) ==
    /\ LET r == getStore(ProxyField(obj)) IN
        last' = [NoOp EXCEPT !.op = "getStore", !.arg = obj, !.out = r.out,
                             !.threw = r.threw, !.att = Attached]
    /\ UNCHANGED <<own, proto, ext, store, count, regs, queue>>
    /\ UNCHANGED memoVars
    /\ UNCHANGED attVars
    /\ UNCHANGED list
    /\ UNCHANGED atom
    /\ UNCHANGED unowned

NextLookup ==
    \/ ReactiveCreate
    \/ \E obj \in {RawObj} \cup FacadeIds : ReactiveDispose(obj)
    \/ BaseCreate
    \/ \E value \in {NoFacade} \cup FacadeIds : SetProxy(value)
    \/ \E obj \in {RawObj} \cup FacadeIds : GetProxy(obj)
    \/ \E obj \in {RawObj} \cup FacadeIds : TargetIs(obj)
    \/ \E obj \in {RawObj} \cup FacadeIds : ReactiveIs(obj)
    \/ \E obj \in {RawObj} \cup FacadeIds : GetRaw(obj)
    \/ \E obj \in {RawObj} \cup FacadeIds : GetStore(obj)

SpecLookup == Init /\ [][NextLookup]_vars

NextAttach ==
    \/ ReactiveCreate
    \/ \E obj \in {RawObj} \cup FacadeIds : ReactiveDispose(obj)
    \/ BaseCreate
    \/ \E value \in {NoFacade} \cup FacadeIds : SetProxy(value)
    \/ \E f \in FacadeIds, k \in Keys : TrackVia(f, k)

SpecAttach == Init /\ [][NextAttach]_vars

\* runWithOwner(getOwner(f), () => onCleanup(fn)): user code registers a cleanup
\* under the scope of proxy f. getOwner reads f.#proxy.#owner, and a proxy's own
\* #proxy is itself, so the scope is reached through the proxy whatever is attached.
OnCleanup(f) ==
    /\ f \in FacadeIds
    /\ facades[f].registered < MaxCleanups
    /\ facades' = [facades EXCEPT ![f].registered = @ + 1, ![f].cleanups = @ + 1]
    /\ last' = [NoOp EXCEPT !.op = "onCleanup", !.out = f, !.att = Attached]
    /\ UNCHANGED <<own, proto, ext, store, count, regs, queue, rawProxy, targetProxy>>
    /\ UNCHANGED memoVars
    /\ UNCHANGED list
    /\ UNCHANGED atom
    /\ UNCHANGED unowned

\* The disposer `d` createRoot hands out: it cleans the root, which runs the
\* cleanups registered under it and empties their list.
\* (with a variant that leaves the list as it is)
rootDispose_KeepsCleanups(fc) == [fc EXCEPT !.runs = @ + fc.cleanups]
rootDispose(fc) == [fc EXCEPT !.runs = @ + fc.cleanups, !.cleanups = 0]

\* DisposableHandler.getOwner(f)[Symbol.dispose](): createOwner stored `d` there.
OwnerDispose(f) ==
    /\ f \in FacadeIds
    /\ facades[f].by = "Base"
    /\ facades' = [facades EXCEPT ![f] = rootDispose(facades[f])]
    /\ last' = [NoOp EXCEPT !.op = "Symbol.dispose", !.out = f, !.att = Attached,
                            !.passes = facades[f].cleanups]
    /\ UNCHANGED <<own, proto, ext, store, count, regs, queue, rawProxy, targetProxy>>
    /\ UNCHANGED memoVars
    /\ UNCHANGED list
    /\ UNCHANGED atom
    /\ UNCHANGED unowned

\* `disposer.register(proxyData, d)`: the registry calls `d` once, some time after
\* the proxy has become unreachable, which the raw object allows once it no longer
\* refers to the proxy.
Finalize(f) ==
    /\ f \in FacadeIds
    /\ facades[f].by = "Reactive"
    /\ facades[f].detached
    /\ ~facades[f].finalized
    /\ facades' = [facades EXCEPT ![f] = [rootDispose(facades[f]) EXCEPT !.finalized = TRUE]]
    /\ last' = [NoOp EXCEPT !.op = "finalize", !.out = f, !.att = Attached,
                            !.passes = facades[f].cleanups]
    /\ UNCHANGED <<own, proto, ext, store, count, regs, queue, rawProxy, targetProxy>>
    /\ UNCHANGED memoVars
    /\ UNCHANGED list
    /\ UNCHANGED atom
    /\ UNCHANGED unowned

NextScope ==
    \/ ReactiveCreate
    \/ \E obj \in {RawObj} \cup FacadeIds : ReactiveDispose(obj)
    \/ BaseCreate
    \/ SetProxy(NoFacade)
    \/ \E f \in FacadeIds : OnCleanup(f)
    \/ \E f \in FacadeIds : OwnerDispose(f)
    \/ \E f \in FacadeIds : Finalize(f)

SpecScope == Init /\ [][NextScope]_vars

(***************************************************************************)
(* Reactive arrays: ReactiveArray with ReactiveArrayHandler, and an Array  *)
(* behind ListHandler                                                      *)
(***************************************************************************)
\* The state an array operation threads through its steps: the items of the raw
\* array and, in order, the batches of update() calls made so far, each with the
\* items the raw array holds when the batch ends.
ListState(items) == [items |-> items, groups |-> <<>>, seen |-> <<>>]

HasIdx(items, i) == i < Len(items) /\ items[i + 1] # Empty
GetIdx(items, i) == IF HasIdx(items, i) THEN items[i + 1] ELSE Undefined

\* Object.hasOwn(t, k) on the raw array: "length" and the indices that hold an item.
hasOwnKey(items, k) ==
    k = LENGTH \/ \E i \in 0..(Len(items) - 1) : IdxKey(i) = k /\ items[i + 1] # Empty

\* isArrayProp(k): "length" or the string of a non-negative integer.
isArrayProp(k) == k = LENGTH \/ \E j \in DOMAIN IdxKeys : IdxKeys[j] = k

\* ReactiveArrayHandler.update(t, k): the keys super.update is called on, in one
\* batch.
arrayUpdate(k) == IF isArrayProp(k) THEN {k, TRACK} ELSE {k}

\* ListHandler.update(t, k): likewise, the test being made on the raw array as it
\* is when update runs.
listUpdate(items, k) == IF k = TRACK \/ ~hasOwnKey(items, k) THEN {k} ELSE {k, TRACK}

\* `this.update(t, k, store)` in a trap of the handler class `by`.
update(by, items, k) == IF by = "ReactiveArray" THEN arrayUpdate(k) ELSE listUpdate(items, k)

\* The raw array under Reflect.defineProperty of an index and of "length", and
\* under Reflect.deleteProperty of an index: an array grows to hold a new index,
\* drops the items beyond a shorter length, and keeps its length when it loses one.
rawDefineIndex(items, i, v) ==
    IF i < Len(items) THEN [items EXCEPT ![i + 1] = v]
    ELSE items \o [j \in 1..(i - Len(items)) |-> Empty] \o <<v>>
rawSetLength(items, n) ==
    IF n <= Len(items) THEN SubSeq(items, 1, n)
    ELSE items \o [j \in 1..(n - Len(items)) |-> Empty]
rawDeleteIndex(items, i) == IF i < Len(items) THEN [items EXCEPT ![i + 1] = Empty] ELSE items

\* A trap's batch joins the record unless it called update() on nothing.
Step(S, items2, keys) ==
    IF keys = {} THEN [S EXCEPT !.items = items2]
    ELSE [items |-> items2, groups |-> Append(S.groups, keys), seen |-> Append(S.seen, items2)]

\* `proxy[i] = v`: the set trap hands over to Reflect.set, which comes back through
\* the defineProperty trap; it updates the shape and the key when the property is
\* new, the key when the value differs, and nothing otherwise.
listSet(by, S, i, v) ==
    LET items2 == rawDefineIndex(S.items, i, v)
        keys == IF ~HasIdx(S.items, i)
                THEN update(by, items2, SHAPE) \cup update(by, items2, IdxKey(i))
                ELSE IF compare(v, GetIdx(S.items, i)) THEN {}
                ELSE update(by, items2, IdxKey(i))
    IN  Step(S, items2, keys)

\* `proxy.length = n`, likewise: the defineProperty trap compares n with the length
\* the raw array has at that moment.
listSetLength(by, S, n) ==
    LET items2 == rawSetLength(S.items, n)
        keys == IF compare(n, Len(S.items)) THEN {} ELSE update(by, items2, LENGTH)
    IN  Step(S, items2, keys)

\* `delete proxy[i]`: the deleteProperty trap updates the key and the shape when
\* the property was an own one, on the array as the delete left it.
listDelete(by, S, i) ==
    LET items2 == rawDeleteIndex(S.items, i)
        keys == IF HasIdx(S.items, i)
                THEN update(by, items2, IdxKey(i)) \cup update(by, items2, SHAPE)
                ELSE {}
    IN  Step(S, items2, keys)

\* The loops of the Array.prototype methods (ECMAScript 23.1.3), run on the proxy.
\* Set(O, at, vs[1]), Set(O, at + 1, vs[2]), ...
RECURSIVE setAll(_, _, _, _)
setAll(by, S, at, vs) ==
    IF vs = <<>> THEN S ELSE setAll(by, listSet(by, S, at, Head(vs)), at + 1, Tail(vs))

\* If HasProperty(O, from) then Set(O, to, Get(O, from)) else DeletePropertyOrThrow(O, to).
moveOrDelete(by, S, from, to) ==
    IF HasIdx(S.items, from) THEN listSet(by, S, to, GetIdx(S.items, from))
    ELSE listDelete(by, S, to)

\* `cnt` items moved from `from` to `to`, lowest first and highest first.
RECURSIVE moveAsc(_, _, _, _, _)
moveAsc(by, S, from, cnt, to) ==
    IF cnt <= 0 THEN S
    ELSE moveAsc(by, moveOrDelete(by, S, from, to), from + 1, cnt - 1, to + 1)
RECURSIVE moveDesc(_, _, _, _, _)
moveDesc(by, S, from, cnt, to) ==
    IF cnt <= 0 THEN S
    ELSE moveDesc(by, moveOrDelete(by, S, from + cnt - 1, to + cnt - 1), from, cnt - 1, to)

\* DeletePropertyOrThrow(O, hi - 1), ..., DeletePropertyOrThrow(O, lo).
RECURSIVE deleteDown(_, _, _, _)
deleteDown(by, S, hi, lo) ==
    IF hi <= lo THEN S ELSE deleteDown(by, listDelete(by, S, hi - 1), hi - 1, lo)

arrayPush(by, S, vs) ==
    LET len == Len(S.items) IN listSetLength(by, setAll(by, S, len, vs), len + Len(vs))

arrayPop(by, S) ==
    LET len == Len(S.items)
    IN  IF len = 0 THEN listSetLength(by, S, 0)
        ELSE listSetLength(by, listDelete(by, S, len - 1), len - 1)

arrayShift(by, S) ==
    LET len == Len(S.items)
    IN  IF len = 0 THEN listSetLength(by, S, 0)
        ELSE listSetLength(by, listDelete(by, moveAsc(by, S, 1, len - 1, 0), len - 1), len - 1)

arrayUnshift(by, S, vs) ==
    LET len == Len(S.items)
        S1 == IF vs = <<>> THEN S ELSE setAll(by, moveDesc(by, S, 0, len, Len(vs)), 0, vs)
    IN  listSetLength(by, S1, len + Len(vs))

RECURSIVE reverseLoop(_, _, _, _)
reverseLoop(by, S, lower, len) ==
    IF lower >= len \div 2 THEN S
    ELSE LET upper == len - lower - 1
             lowerExists == HasIdx(S.items, lower)
             upperExists == HasIdx(S.items, upper)
             lowerValue == GetIdx(S.items, lower)
             upperValue == GetIdx(S.items, upper)
             S1 == IF lowerExists /\ upperExists
                   THEN listSet(by, listSet(by, S, lower, upperValue), upper, lowerValue)
                   ELSE IF upperExists
                   THEN listDelete(by, listSet(by, S, lower, upperValue), upper)
                   ELSE IF lowerExists
                   THEN listSet(by, listDelete(by, S, lower), upper, lowerValue)
                   ELSE S
         IN  reverseLoop(by, S1, lower + 1, len)
arrayReverse(by, S) == reverseLoop(by, S, 0, Len(S.items))

RECURSIVE arrayFill(_, _, _, _, _)
arrayFill(by, S, v, start, end) ==
    IF start >= end THEN S ELSE arrayFill(by, listSet(by, S, start, v), v, start + 1, end)

\* SortIndexedProperties with holes skipped: the items in ascending order.
RECURSIVE insertSorted(_, _)
insertSorted(sorted, v) ==
    IF sorted = <<>> THEN <<v>>
    ELSE IF v < Head(sorted) THEN <<v>> \o sorted
    ELSE <<Head(sorted)>> \o insertSorted(Tail(sorted), v)
RECURSIVE sortedItems(_)
sortedItems(items) ==
    IF items = <<>> THEN <<>>
    ELSE IF Head(items) = Empty THEN sortedItems(Tail(items))
    ELSE insertSorted(sortedItems(Tail(items)), Head(items))
arraySort(by, S) ==
    LET sorted == sortedItems(S.items)
    IN  deleteDown(by, setAll(by, S, 0, sorted), Len(S.items), Len(sorted))

arrayCopyWithin(by, S, target, start, end) ==
    LET len == Len(S.items)
        cnt == IF end - start < len - target THEN end - start ELSE len - target
    IN  IF start < target /\ target < start + cnt
        THEN moveDesc(by, S, start, cnt, target)
        ELSE moveAsc(by, S, start, cnt, target)

\* Array.prototype.splice; the array it returns has actualDeleteCount items.
\* (with a variant that removes one item more)
ActualDeleteCount_OneMore(items, start, deleteCount) ==
    IF deleteCount + 1 < Len(items) - start THEN deleteCount + 1 ELSE Len(items) - start
ActualDeleteCount(items, start, deleteCount) ==
    IF deleteCount < Len(items) - start THEN deleteCount ELSE Len(items) - start
arraySplice(by, S, start, deleteCount, vs) ==
    LET len == Len(S.items)
        adc == ActualDeleteCount(S.items, start, deleteCount)
        itemCount == Len(vs)
        S1 == IF itemCount < adc
              THEN deleteDown(by, moveAsc(by, S, start + adc, len - adc - start, start + itemCount),
                              len, len - adc + itemCount)
              ELSE IF itemCount > adc
              THEN moveDesc(by, S, start + adc, len - adc - start, start + itemCount)
              ELSE S
    IN  listSetLength(by, setAll(by, S1, start, vs), len - adc + itemCount)

\* A call of a mutating method: its name, the items it is given, and two numbers
\* (fill: start, end; copyWithin: target, start; splice: start, deleteCount).
Call(m, vs, a, b) == [m |-> m, vs |-> vs, a |-> a, b |-> b]

\* Array.prototype[call.m] applied to the proxy.
applyMethod(by, S, call) ==
    CASE call.m = "push" -> arrayPush(by, S, call.vs)
      [] call.m = "unshift" -> arrayUnshift(by, S, call.vs)
      [] call.m = "pop" -> arrayPop(by, S)
      [] call.m = "shift" -> arrayShift(by, S)
      [] call.m = "reverse" -> arrayReverse(by, S)
      [] call.m = "sort" -> arraySort(by, S)
      [] call.m = "fill" -> arrayFill(by, S, Head(call.vs), call.a, call.b)
      [] call.m = "copyWithin" -> arrayCopyWithin(by, S, call.a, call.b, Len(S.items))
      [] call.m = "splice" -> arraySplice(by, S, call.a, call.b, call.vs)

\* batch(fn) around the whole of fn: the batches made inside join it, and the
\* engine runs once, when it ends, on the array as it is then.
batchAll(S) ==
    IF Calls(S.groups) = {} THEN S
    ELSE [items |-> S.items, groups |-> <<Calls(S.groups)>>, seen |-> <<S.items>>]

\* Whether the method of ReactiveArray calls `this.update()` after the base method:
\* always in push, unshift, pop and shift, in splice when it removed or added items.
\* (with a variant in which no method does)
forcesUpdate_Never(items, call) == FALSE
forcesUpdate(items, call) ==
    \/ call.m \in {"push", "unshift", "pop", "shift"}
    \/ /\ call.m = "splice"
       /\ (ActualDeleteCount(items, call.a, call.b) > 0 \/ Len(call.vs) > 0)

\* A mutating method of ReactiveArray: batch(() => { super.m(...); this.update() }),
\* update() being ReactiveArrayHandler.prototype.update(this, "length").
\* (with a variant that does not batch)
reactiveArrayCall_NoBatch(items, call) ==
    LET S == applyMethod("ReactiveArray", ListState(items), call)
        forced == forcesUpdate(items, call)
        S2 == IF forced THEN Step(S, S.items, update("ReactiveArray", S.items, LENGTH)) ELSE S
    IN  [items |-> S2.items, traps |-> S.groups, groups |-> S2.groups,
         seen |-> S2.seen, forced |-> forced]
reactiveArrayCall(items, call) ==
    LET S == applyMethod("ReactiveArray", ListState(items), call)
        forced == forcesUpdate(items, call)
        S2 == IF forced THEN Step(S, S.items, update("ReactiveArray", S.items, LENGTH)) ELSE S
        B == batchAll(S2)
    IN  [items |-> B.items, traps |-> S.groups, groups |-> B.groups,
         seen |-> B.seen, forced |-> forced]

\* A method read through ListHandler.get: the function ListHandler.batch wraps,
\* `batch(() => f.apply(this, args))`.
listCall(items, call) ==
    LET S == applyMethod("List", ListState(items), call)
        B == batchAll(S)
    IN  [items |-> B.items, traps |-> S.groups, groups |-> B.groups,
         seen |-> B.seen, forced |-> FALSE]

\* The effects an update() of key k reaches: those that read k through the proxy
\* (track created the forcer of k for them).
ListObservers(k) == {c \in Comps : k \in list.reads[c]}
ListScheduled(groups) == UNION {ListObservers(k) : k \in Calls(groups)}
ListPasses(groups) ==
    Cardinality({i \in DOMAIN groups : UNION {ListObservers(k) : k \in groups[i]} # {}})

\* The arrays wrapped, the keys the two effects read, and the calls made.
ListInputs == {<<>>, <<1>>, <<2, 1>>, <<1, Empty, 2>>, <<1, 2, 3, 4>>}
ListReads ==
    {[c \in Comps |-> IF c = "c1" THEN {LENGTH} ELSE {TRACK}],
     [c \in Comps |-> IF c = "c1" THEN {"0", "1"} ELSE {TRACK, LENGTH}],
     [c \in Comps |-> IF c = "c1" THEN {"1", SHAPE} ELSE {"3", TRACK}]}
ListCalls(items) ==
    {Call(m, vs, 0, 0) : m \in {"push", "unshift"}, vs \in {<<5>>, <<5, 6>>}}
    \cup {Call(m, <<>>, 0, 0) : m \in {"pop", "shift", "reverse", "sort"}}
    \cup {Call("fill", <<v>>, 0, Len(items)) : v \in {1, 5}}
    \cup {Call("copyWithin", <<>>, 0, 1), Call("copyWithin", <<>>, 1, 0)}
    \cup {c \in {Call("splice", <<>>, 0, 0), Call("splice", <<5, 6, 7>>, 0, 2),
                 Call("splice", <<>>, 1, 1), Call("splice", <<5>>, 0, 1),
                 Call("splice", <<5>>, Len(items), 0)} : c.a <= Len(items)}

\* new ReactiveArray(list) or ListHandler.create(list), and the first run of the
\* two effects. The constructor of ReactiveArray pushes the items of an iterable,
\* which has no holes.
ListCreate(by, items, reads) ==
    /\ list.by = "none"
    /\ by = "ReactiveArray" => \A i \in DOMAIN items : items[i] # Empty
    /\ list' = [by |-> by, items |-> items, reads |-> reads, ops |-> 0]
    /\ last' = [NoOp EXCEPT !.op = "create", !.items = items]
    /\ UNCHANGED <<own, proto, ext, store, count, regs, queue>>
    /\ UNCHANGED memoVars
    /\ UNCHANGED attVars
    /\ UNCHANGED atom
    /\ UNCHANGED unowned

\* What an operation on the array leaves: the items, the effects queued, and its
\* record (the array before it, the batches of its traps, the batches the engine
\* saw, the keys updated, the passes of the engine, the items each pass found).
ListMutates(r, rec) ==
    /\ list.by # "none"
    /\ queue = {}
    /\ list.ops < MaxListOps
    /\ Len(r.items) <= MaxLen
    /\ list' = [list EXCEPT !.items = r.items, !.ops = @ + 1]
    /\ queue' = ListScheduled(r.groups)
    /\ last' = [rec EXCEPT !.items = list.items, !.traps = r.traps, !.groups = r.groups,
                           !.calls = Calls(r.groups), !.passes = ListPasses(r.groups),
                           !.seen = r.seen, !.changed = r.forced]
    /\ UNCHANGED <<own, proto, ext, store, count, regs>>
    /\ UNCHANGED memoVars
    /\ UNCHANGED attVars
    /\ UNCHANGED atom
    /\ UNCHANGED unowned

\* proxy.m(...) for a mutating method m.
ListCall(call) ==
    /\ call \in ListCalls(list.items)
    /\ ListMutates(IF list.by = "ReactiveArray" THEN reactiveArrayCall(list.items, call)
                   ELSE listCall(list.items, call),
                   [NoOp EXCEPT !.op = call.m, !.call = call])

\* One trap, called by user code outside any batch.
Trap(S) == [items |-> S.items, traps |-> S.groups, groups |-> S.groups, seen |-> S.seen,
            forced |-> FALSE]

\* proxy[i] = v
ListSet(i, v) ==
    ListMutates(Trap(listSet(list.by, ListState(list.items), i, v)),
                [NoOp EXCEPT !.op = "set", !.k = IdxKey(i), !.out = v])

\* proxy.length = n
ListSetLength(n) ==
    ListMutates(Trap(listSetLength(list.by, ListState(list.items), n)),
                [NoOp EXCEPT !.op = "set", !.k = LENGTH, !.out = n])

\* delete proxy[i]
ListDelete(i) ==
    ListMutates(Trap(listDelete(list.by, ListState(list.items), i)),
                [NoOp EXCEPT !.op = "deleteProperty", !.k = IdxKey(i),
                             !.hadOwn = HasIdx(list.items, i)])

\* handler.update(t, k), called by user code: a forced update of key k.
ListUpdate(k) ==
    /\ list.by # "none"
    /\ queue = {}
    /\ LET groups == <<update(list.by, list.items, k)>> IN
        /\ queue' = ListScheduled(groups)
        /\ last' = [NoOp EXCEPT !.op = "update", !.k = k, !.items = list.items,
                                !.traps = groups, !.groups = groups,
                                !.calls = Calls(groups), !.passes = ListPasses(groups),
                                !.seen = <<list.items>>]
    /\ UNCHANGED <<own, proto, ext, store, count, regs, list>>
    /\ UNCHANGED memoVars
    /\ UNCHANGED attVars
    /\ UNCHANGED atom
    /\ UNCHANGED unowned

\* The engine re-runs the queued effect c, which reads the keys it read before.
ListRerun(c) ==
    /\ list.by # "none"
    /\ c \in queue
    /\ queue' = queue \ {c}
    /\ last' = [NoOp EXCEPT !.op = "rerun", !.l = c, !.items = list.items]
    /\ UNCHANGED <<own, proto, ext, store, count, regs, list>>
    /\ UNCHANGED memoVars
    /\ UNCHANGED attVars
    /\ UNCHANGED atom
    /\ UNCHANGED unowned

ListKeys == {IdxKey(i) : i \in 0..MaxLen} \cup {LENGTH, TRACK, SHAPE}

NextList ==
    \/ \E by \in {"ReactiveArray", "List"}, items \in ListInputs, reads \in ListReads :
            ListCreate(by, items, reads)
    \/ \E call \in ListCalls(list.items) : ListCall(call)
    \/ \E i \in 0..(MaxLen - 1), v \in {1, 5} : ListSet(i, v)
    \/ \E n \in 0..MaxLen : ListSetLength(n)
    \/ \E i \in 0..(MaxLen - 1) : ListDelete(i)
    \/ \E k \in ListKeys : ListUpdate(k)
    \/ \E c \in Comps : ListRerun(c)

SpecList == Init /\ [][NextList]_vars

(***************************************************************************)
(* Atoms: ReadOnlyAtom, Atom, Atom.from, Atom.unwrap, Atom.source          *)
(***************************************************************************)
\* The functions given to update(): IDENTITY, the default, and one that changes
\* every value.
Fns == {"IDENTITY", "next"}
Apply(f, x) == IF f = "IDENTITY" THEN x ELSE IF x = 2 THEN 1 ELSE x + 1

\* ReadOnlyAtom.trySet(_) and Atom.trySet(value): what it returns and the calls of
\* the write function `set` it makes. (with a variant in which both write)
trySet_BothWrite(kind, v) == [ok |-> TRUE, writes |-> <<v>>]
trySet(kind, v) ==
    IF kind = "ReadOnlyAtom" THEN [ok |-> FALSE, writes |-> <<>>]
    ELSE [ok |-> TRUE, writes |-> <<v>>]

\* update(f): f(untrack(this.get)), given to trySet and returned; the read
\* registers nothing on the listener.
update_Atom(kind, cur, f) ==
    LET out == Apply(f, cur)
        r == trySet(kind, out)
    IN  [out |-> out, ok |-> r.ok, writes |-> r.writes, tracked |-> {}]

\* The write function of Atom.from([get, set]): v => set(() => v), on the signal.
fromSet(cur, writes) == IF writes = <<>> THEN cur ELSE writes[Len(writes)]

\* The binding: an accessor over the signal `dep`, which returns nothing for 0 and
\* for 1, the atom of signal A for 2 and the atom of signal B for 3.
bind(d) == CASE d = 2 -> "A" [] d = 3 -> "B" [] OTHER -> "none"

\* createMemo(on(bind, x => x ?? Atom.from(f()))): each run of the memo returns
\* the atom bind returns, or makes a signal with f() and returns the atom of it.
sourceMemo(a, d) ==
    IF bind(d) # "none" THEN [a EXCEPT !.dep = d, !.target = bind(d)]
    ELSE [a EXCEPT !.dep = d, !.target = "cell", !.cell = Undefined, !.cells = @ + 1]

\* The value of the atom the memo holds, and a write to it.
targetValue(a) == CASE a.target = "A" -> a.A [] a.target = "B" -> a.B [] OTHER -> a.cell
targetSet(a, v) ==
    CASE a.target = "A" -> [a EXCEPT !.A = v]
      [] a.target = "B" -> [a EXCEPT !.B = v]
      [] OTHER -> [a EXCEPT !.cell = v]

AtomStep(a, rec) ==
    /\ atom' = a
    /\ last' = rec
    /\ UNCHANGED <<own, proto, ext, store, count, regs, queue, list, unowned>>
    /\ UNCHANGED memoVars
    /\ UNCHANGED attVars

\* atom.trySet(v), on new ReadOnlyAtom(getA) or on Atom.from([getA, setA]).
TrySet(kind, v) ==
    LET r == trySet(kind, v) IN
    AtomStep([atom EXCEPT !.A = fromSet(@, r.writes)],
             [NoOp EXCEPT !.op = "trySet", !.k = kind, !.arg = v, !.ok = r.ok,
                          !.writes = r.writes, !.first = atom.A])

\* atom.update(f), on either, inside the computation l or outside any.
UpdateAtom(kind, f, l) ==
    LET r == update_Atom(kind, atom.A, f) IN
    AtomStep([atom EXCEPT !.A = fromSet(@, r.writes)],
             [NoOp EXCEPT !.op = "update", !.k = kind, !.l = l, !.f = f, !.ok = r.ok,
                          !.out = r.out, !.writes = r.writes, !.tracked = r.tracked,
                          !.first = atom.A])

\* const source = Atom.source(bind): the memo runs at once.
SourceCreate ==
    /\ ~atom.made
    /\ AtomStep([sourceMemo(atom, atom.dep) EXCEPT !.made = TRUE],
                [NoOp EXCEPT !.op = "Atom.source"])

\* The signal the binding reads is set to d: the memo, if there is one, runs again.
SetDep(d) ==
    /\ d # atom.dep
    /\ (atom.made /\ bind(d) = "none") => atom.cells < MaxCells
    /\ AtomStep(IF atom.made THEN sourceMemo(atom, d) ELSE [atom EXCEPT !.dep = d],
                [NoOp EXCEPT !.op = "setDep", !.arg = d, !.first = targetValue(atom)])

\* source.value = v: f().value = v on the atom the memo holds.
SourceSet(v) ==
    /\ atom.made
    /\ AtomStep(targetSet(atom, v),
                [NoOp EXCEPT !.op = "source.set", !.arg = v, !.first = targetValue(atom)])

\* source.value, read inside the computation l or outside any: f().value.
SourceGet(l) ==
    /\ atom.made
    /\ AtomStep(atom,
                [NoOp EXCEPT !.op = "source.get", !.l = l, !.out = targetValue(atom),
                             !.tracked = IF l = NoListener THEN {} ELSE {"memo", atom.target}])

\* A write to the signal A or B that does not go through the source.
SignalSet(sig, v) ==
    AtomStep(IF sig = "A" THEN [atom EXCEPT !.A = v] ELSE [atom EXCEPT !.B = v],
             [NoOp EXCEPT !.op = "signal.set", !.k = sig, !.arg = v])

AtomVals == Vals \cup {Undefined}

NextAtom ==
    \/ \E kind \in {"ReadOnlyAtom", "Atom"}, v \in AtomVals : TrySet(kind, v)
    \/ \E kind \in {"ReadOnlyAtom", "Atom"}, f \in Fns, l \in Listeners : UpdateAtom(kind, f, l)
    \/ SourceCreate
    \/ \E d \in 0..3 : SetDep(d)
    \/ \E v \in AtomVals : SourceSet(v)
    \/ \E l \in Listeners : SourceGet(l)
    \/ \E sig \in {"A", "B"}, v \in AtomVals : SignalSet(sig, v)

SpecAtom == Init /\ [][NextAtom]_vars

(***************************************************************************)
(* Properties of the memoizing proxy                                       *)
(***************************************************************************)
\* C1 (read transparency): the value a read of k through the proxy returned is the
\* value a read of k on the raw object returns at that moment.
C1_ReadTransparency ==
    last.op = "get" => last.out = ReflectGet(own, proto, last.k)

\* The key resolves to a getter, on the raw object or on its prototype.
IsGetterKey(k) == k \in Keys /\ IsAccessorDescriptor(Lookup(own, proto, k))

\* C12 as stated: of two reads of a getter key that follow each other, whatever the
\* context they are made from, the second does not evaluate the getter.
C12_SecondReadNeverEvaluates ==
    [][(last.op = "get" /\ last'.op = "get" /\ last'.k = last.k /\ IsGetterKey(last.k))
         => last'.evals = 0]_vars

\* C12 (what holds): a read of a getter key evaluates the getter at most once, and
\* does not evaluate it exactly when the accessor in the cache holds a live native
\* memo, that is while a computation that read the key has not been cleaned; an
\* invalidation re-evaluates the native memo at most once.
C12_ReadEvaluatesIffNoMemo ==
    [][/\ (last'.op = "get" /\ IsGetterKey(last'.k)) =>
              last'.evals = (IF cache[last'.k] = CacheMemo /\ HasMemo(memo) THEN 0 ELSE 1)
       /\ last'.evals <= 1
       /\ (last'.op \notin {"get", "getReceiver"} /\ last'.evals = 1)
              => (memo.live /\ last'.calls # {})]_vars

\* User code read the getter key while a computation keeps its native memo alive:
\* the read evaluated nothing and returned the memoized value.
C12_Witness ==
    /\ last.op = "get" /\ last.l = NoListener /\ last.k = "b" /\ IsGetterKey("b")
    /\ last.evals = 0
    /\ HasMemo(memo) /\ readers["c1"] > 0 /\ last.out = memo.val

\* C13 (receiver isolation): a read of k that reaches the memoizing proxy with a
\* receiver that is not the proxy leaves the cache, the native memo and its readers
\* as they were, evaluates the getter (if k has one) with the receiver as `this`, and
\* returns what Reflect.get returns for that receiver.
C13_ReceiverIsolation ==
    [][last'.op = "getReceiver" =>
          /\ cache' = cache /\ memo' = memo /\ readers' = readers
          /\ last'.out = ReflectGetReceiver(own, proto, last'.k, last'.r)
          /\ IsGetterKey(last'.k) => last'.evals = 1]_vars

\* The getter key was read on an object with its own `a` while the proxy holds a
\* memoized value for it: the read returned the object's `a`, not the memo's value.
C13_Witness ==
    /\ last.op = "getReceiver" /\ last.r = "childA" /\ last.k = "b" /\ IsGetterKey("b")
    /\ cache["b"] = CacheMemo /\ HasMemo(memo)
    /\ last.out = ChildA /\ memo.val # ChildA

\* C14 (circular detection): a read of a key whose getter reads the same key ends
\* with the CircularGetterError of the circular fallback, before the call stack is
\* exhausted.
C14_CircularFallback ==
    last.op = "getSelf" => (last.threw = "CircularGetterError" /\ last.evals < StackDepth)

\* C15 (evict before notify): when a delete of an own key, a redefinition or a
\* prototype change made through the memoizing proxy has queued its dependents, the
\* cache holds no memo for an affected key (the key deleted or redefined; after a
\* prototype change every key that is not an own key), so no re-run reads an old one.
C15_EvictBeforeNotify ==
    /\ (last.op = "deleteProperty" /\ last.hadOwn /\ last.ok) => cache[last.k] # CacheMemo
    /\ (last.op \in {"defineProperty", "set"} /\ last.ok) => cache[last.k] # CacheMemo
    /\ (last.op = "setPrototypeOf" /\ last.changed /\ queue # {}) =>
          \A k \in Keys : ~HasOwn(own, k) => cache[k] # CacheMemo

\* C16 (a getter that throws commits nothing): a read whose getter throws passes the
\* exception on and leaves the cache entry and the store entry of the key as they
\* were before the read.
C16_ThrowCommitsNothing ==
    [][last'.op = "getThrow" =>
          /\ last'.threw = "Error"
          /\ cache'[last'.k] = cache[last'.k]
          /\ store'[last'.k] = store[last'.k]]_vars

\* C17 as stated: the native memo of a getter belongs to the scope of the proxy and
\* is torn down only with it; no step of a proxy that is never disposed tears it down.
C17_MemoOutlivesReaders == [][memo.live => memo'.live]_vars

\* C17 (what holds): the native memo of a getter is created in a root of its own by
\* the first read made under an owner, and lives exactly as long as a computation
\* that read it has not been cleaned: the cleanup of the last one tears it down.
C17_MemoLivesWithReaders ==
    memo.live <=> \E c \in Comps : readers[c] > 0

\* The computation that read the getter was disposed: the accessor is still in the
\* cache and its native memo is gone.
C17_Witness ==
    /\ last.op = "dispose" /\ last.l = "c1"
    /\ cache["b"] = CacheMemo /\ ~memo.live /\ readers["c1"] = 0

(***************************************************************************)
(* Properties of the attachment                                            *)
(***************************************************************************)

Creates == {"Reactive.create", "BaseHandler.create"}

\* C18 as stated: a create call on a raw object that has an attached proxy returns
\* that proxy and creates no other, whichever class creates.
C18_WrapIdempotent ==
    [][(last'.op \in Creates /\ Attached > NoFacade)
       => (last'.out = Attached /\ facades' = facades)]_vars

\* C18: Reactive.create on a raw object that has an attached proxy returns that
\* proxy, creates none and leaves the attachment alone, at every repetition;
\* BaseHandler.create returns at every call a proxy that did not exist before and
\* attaches it.
C18_WrapIdempotentReactive ==
    [][/\ (last'.op = "Reactive.create" /\ Attached > NoFacade)
            => /\ last'.threw = "none"
               /\ last'.out = Attached
               /\ facades' = facades
               /\ rawProxy' = rawProxy
       /\ last'.op = "BaseHandler.create"
            => /\ last'.out \notin FacadeIds
               /\ Len(facades') = Len(facades) + 1
               /\ Attached' = last'.out]_vars

\* Reactive.create was called again on the wrapped object, after a read had filled
\* the store of its proxy, and returned that proxy.
C18_Witness ==
    /\ last.op = "Reactive.create"
    /\ last.att > NoFacade
    /\ last.out = last.att
    /\ facades[last.out].tracked # {}

\* C19 as stated: every proxy created for the raw object and not detached by a call
\* is the one the lookup on the raw object returns.
C19_OneLiveFacade ==
    \A i \in FacadeIds : ~facades[i].detached => Attached = i

\* C19: every proxy created for the raw object that no call detached and over which
\* no other proxy was attached is the one the lookup on the raw object returns (so
\* there is at most one).
C19_OneAttachedFacade ==
    \A i \in FacadeIds : (~facades[i].detached /\ ~facades[i].replaced) => Attached = i

\* Three proxies of one raw object: one replaced by a later create, one detached,
\* the third attached.
C19_Witness ==
    /\ Len(facades) = 3
    /\ \E i, j \in FacadeIds :
        /\ facades[i].replaced /\ ~facades[i].detached
        /\ facades[j].detached
    /\ Attached \in FacadeIds
    /\ ~facades[Attached].detached /\ ~facades[Attached].replaced

\* C20: when the raw object's proxy has been detached (its #proxy holds
\* `undefined`), a create call returns a proxy that did not exist before, whose
\* store is empty.
C20_RewrapAfterDetach ==
    [][(last'.op \in Creates /\ Attached = NoFacade)
       => /\ last'.threw = "none"
          /\ last'.out \notin FacadeIds
          /\ last'.out \in 1..Len(facades')
          /\ facades'[last'.out].tracked = {}]_vars

(***************************************************************************)
(* Properties of the scope of a proxy                                      *)
(***************************************************************************)

\* C21 as stated: after dispose(proxy) the teardown of the proxy's scope has run:
\* the call does not throw and no cleanup registered under the scope is left to run.
C21_DisposeRunsTeardown ==
    [][(last'.op = "Reactive.dispose" /\ last'.out \in FacadeIds)
       => /\ last'.threw = "none"
          /\ facades'[last'.out].cleanups = 0
          /\ facades'[last'.out].runs = facades'[last'.out].registered]_vars

\* C21: the disposer of a scope runs every cleanup registered under it once: after
\* it no cleanup is left and each has run once, and calling it again changes
\* nothing; no cleanup ever runs twice. Reactive.dispose through a proxy does not
\* throw and runs no cleanup, and repeated it changes nothing.
C21_ScopeTeardownOnce ==
    [][/\ \A i \in 1..Len(facades') :
            facades'[i].runs + facades'[i].cleanups = facades'[i].registered
       /\ last'.op = "Symbol.dispose"
            => /\ last'.threw = "none"
               /\ facades'[last'.out].cleanups = 0
               /\ facades'[last'.out].runs = facades'[last'.out].registered
               /\ facades[last'.out].cleanups = 0 => facades' = facades
       /\ (last'.op = "Reactive.dispose" /\ last'.out \in FacadeIds)
            => /\ last'.threw = "none"
               /\ rawProxy' = NoFacade
               /\ \A i \in FacadeIds : facades'[i].runs = facades[i].runs
               /\ rawProxy = NoFacade => facades' = facades]_vars

\* The disposer of a scope was called a second time, after the first call had run
\* the cleanup registered under it.
C21_Witness ==
    /\ last.op = "Symbol.dispose"
    /\ last.passes = 0
    /\ facades[last.out].runs = 1
    /\ facades[last.out].cleanups = 0

(***************************************************************************)
(* Properties of the lookups                                               *)
(***************************************************************************)

\* C22 as stated: the lookup of the proxy of an object that was never wrapped fails
\* with NotAttachedError.
C22_LookupNotAttachedError ==
    (last.op = "getProxy" /\ last.arg = RawObj /\ last.att = NoField)
        => last.threw = "NotAttachedError"

\* C22: on an object on which no attachment field was ever installed, getProxy
\* fails with TypeError, TargetHandler.is answers `undefined` and Reactive.is
\* answers false, both without failing; none of the three changes an attachment.
C22_LookupTypeError ==
    [][/\ (last'.op = "getProxy" /\ last'.arg = RawObj /\ Attached = NoField)
            => last'.threw = "TypeError"
       /\ (last'.op = "is" /\ last'.arg = RawObj /\ Attached = NoField)
            => (last'.threw = "none" /\ last'.out = NoFacade)
       /\ (last'.op = "Reactive.is" /\ last'.arg = RawObj /\ Attached = NoField)
            => (last'.threw = "none" /\ ~last'.ok)
       /\ last'.op \in {"getProxy", "is", "Reactive.is"}
            => (rawProxy' = rawProxy /\ targetProxy' = targetProxy /\ facades' = facades)]_vars

\* getProxy was called on the raw object before anything was attached to it.
C22_Witness ==
    /\ last.op = "getProxy"
    /\ last.arg = RawObj
    /\ last.att = NoField
    /\ last.threw = "TypeError"
    /\ facades = <<>>

C24_IndexNotifiesAggregate ==
    list.by # "none" =>
        \A i \in DOMAIN last.groups :
            (\E k \in last.groups[i] : isArrayProp(k)) => TRACK \in last.groups[i]


Methods == {"reverse", "fill", "sort", "copyWithin", "push", "unshift", "pop", "shift", "splice"}

\* C25: each mutating method of a reactive array, however many traps it goes
\* through, reaches the engine as at most one batch, so that every effect is woken
\* at most once, and the pass of the engine finds the array as the method left it.
C25_MethodIsOneBatch ==
    (list.by # "none" /\ last.op \in Methods) =>
        /\ Len(last.groups) <= 1
        /\ last.passes <= 1
        /\ \A i \in DOMAIN last.seen : last.seen[i] = list.items

\* An unshift on a ReactiveArray that went through three traps or more and woke
\* both effects in one pass.
C25_Witness ==
    /\ list.by = "ReactiveArray"
    /\ last.op = "unshift"
    /\ Len(last.traps) >= 3
    /\ last.passes = 1
    /\ queue = Comps

\* The items a splice removed and added.
Removed == ActualDeleteCount(last.items, last.call.a, last.call.b)
Resizes ==
    \/ last.op \in {"push", "unshift", "pop", "shift"}
    \/ last.op = "splice" /\ (Removed > 0 \/ Len(last.call.vs) > 0)

\* C26: on a ReactiveArray, push, unshift, pop, shift, and a splice that adds or
\* removes an item, notify "length" and $TRACK, whether or not a trap saw the
\* length change; a splice that adds and removes nothing forces no update and
\* notifies no length.
C26_ResizeNotifiesLength ==
    list.by = "ReactiveArray" =>
        /\ Resizes => (last.changed /\ {LENGTH, TRACK} \subseteq last.calls)
        /\ (last.op = "splice" /\ ~Resizes) => (~last.changed /\ LENGTH \notin last.calls)

\* A push whose traps notified no length, and which woke the reader of "length".
C26_Witness ==
    /\ list.by = "ReactiveArray"
    /\ last.op = "push"
    /\ LENGTH \notin Calls(last.traps)
    /\ LENGTH \in last.calls
    /\ \E c \in queue : LENGTH \in list.reads[c]

\* arr.splice(0, 2, 'a', 'b', 'c') on [1, 2, 3, 4], with 5, 6, 7 for 'a', 'b', 'c'.
IsTheSplice ==
    /\ list.by # "none"
    /\ last.op = "splice"
    /\ last.call = Call("splice", <<5, 6, 7>>, 0, 2)
    /\ last.items = <<1, 2, 3, 4>>
AggregateBatches == Cardinality({i \in DOMAIN last.groups : TRACK \in last.groups[i]})

\* C27 (as stated): the splice notifies the aggregate once and leaves
\* ['a', 'b', 'c', 4], of length 4.
C27_SpliceLeavesFour ==
    IsTheSplice => (AggregateBatches = 1 /\ list.items = <<5, 6, 7, 4>>)

\* C27 (amended): the splice notifies the aggregate once and leaves
\* ['a', 'b', 'c', 3, 4], of length 5.
C27_SpliceLeavesFive ==
    IsTheSplice =>
        /\ AggregateBatches = 1
        /\ last.passes <= 1
        /\ list.items = <<5, 6, 7, 3, 4>>
        /\ Len(list.items) = 5

\* That splice on a ReactiveArray, the reader of $TRACK woken.
C27_Witness ==
    /\ IsTheSplice
    /\ list.by = "ReactiveArray"
    /\ \E c \in queue : TRACK \in list.reads[c]


(***************************************************************************)
(* Properties of one mutation through the proxy                            *)
(***************************************************************************)

AtomKinds == {"ReadOnlyAtom", "Atom"}

\* C29: trySet on a ReadOnlyAtom returns false and writes nothing; trySet on an
\* Atom calls the write function once, with the value given, and returns true;
\* update(f) on either reads the value without tracking it, gives f(value) to
\* trySet and returns f(value).
C29_TrySetAndUpdate ==
    /\ (last.op = "trySet" /\ last.k = "ReadOnlyAtom") =>
            (~last.ok /\ last.writes = <<>> /\ atom.A = last.first)
    /\ (last.op = "trySet" /\ last.k = "Atom") =>
            (last.ok /\ last.writes = <<last.arg>> /\ atom.A = last.arg)
    /\ (last.op = "update" /\ last.k \in AtomKinds) =>
            /\ last.out = Apply(last.f, last.first)
            /\ last.tracked = {}
            /\ last.writes = IF last.k = "Atom" THEN <<last.out>> ELSE <<>>
            /\ atom.A = IF last.k = "Atom" THEN last.out ELSE last.first

\* An update of an Atom, inside a computation, with a function that changed the
\* value.
C29_Witness ==
    /\ last.op = "update"
    /\ last.k = "Atom"
    /\ last.f = "next"
    /\ last.l # NoListener
    /\ last.out # last.first
    /\ atom.A = last.out

\* C30: the source atom reads and writes the atom the binding returns at that
\* moment, or, while the binding returns nothing, a signal of its own; a write
\* while unbound leaves the atoms bound before as they are, a write while bound
\* leaves that signal as it is, and the signal keeps its value for as long as the
\* binding goes on returning nothing.
SourceTarget == IF bind(atom.dep) # "none" THEN bind(atom.dep) ELSE "cell"
SourceRoutes ==
    /\ atom.made => atom.target = SourceTarget
    /\ last'.op = "source.get" => last'.out = targetValue(atom)
    /\ (last'.op = "source.set" /\ SourceTarget = "A") =>
            (atom'.A = last'.arg /\ atom'.B = atom.B /\ atom'.cell = atom.cell)
    /\ (last'.op = "source.set" /\ SourceTarget = "B") =>
            (atom'.B = last'.arg /\ atom'.A = atom.A /\ atom'.cell = atom.cell)
    /\ (last'.op = "source.set" /\ SourceTarget = "cell") =>
            (atom'.cell = last'.arg /\ atom'.A = atom.A /\ atom'.B = atom.B)
CellKeepsValue ==
    (atom.made /\ bind(atom.dep) = "none" /\ bind(atom'.dep) = "none"
        /\ last'.op # "source.set") => atom'.cell = atom.cell
C30_SourceForwards == [][SourceRoutes /\ CellKeepsValue]_vars


(***************************************************************************)
(* Properties of MemoHandler.resetMemo                                     *)
(***************************************************************************)

\* C31: resetMemo(obj, k) removes the cache entry of k and then notifies k: the
\* update of k is the only one raised, every computation registered on k is
\* invalidated, and the call returns true exactly when the store held a forcer for
\* k; a read of a getter key whose cache entry is gone evaluates the getter once
\* through a newly made accessor, whose native memo is created by the read if it
\* is made under an owner.
C31_ResetMemo ==
    [][/\ last'.op = "resetMemo" =>
            /\ cache'[last'.k] = CacheUndefined
            /\ \A k \in Keys \ {last'.k} : cache'[k] = cache[k]
            /\ last'.calls = {last'.k}
            /\ last'.ok <=> store[last'.k] = StoreForcer
            /\ \A c \in Comps : regs[c][last'.k] > 0 => c \in queue'
       /\ (last'.op = "get" /\ cache[last'.k] = CacheUndefined
                            /\ getGetter(own, proto, last'.k) # "none") =>
            /\ last'.evals = 1
            /\ last'.out = GetterValue(own, proto)
            /\ cache'[last'.k] = CacheMemo
            /\ last'.l # NoListener => HasMemo(memo') /\ readers'[last'.l] > 0]_vars

\* A reset of `b` while a computation tracks it and its native memo lives: the
\* computation is queued and the memo is no longer reachable from the cache.
C31_Witness ==
    /\ last.op = "resetMemo" /\ last.k = "b" /\ last.ok
    /\ "c1" \in queue
    /\ cache["b"] = CacheUndefined
    /\ memo.live /\ memo.orphan


(***************************************************************************)
(* Properties of the prototype operations of the memoizing proxy           *)
(***************************************************************************)

\* C32: the read that follows a change of prototype made through the memoizing
\* proxy returns, for a key that is not an own key, what the new prototype chain
\* gives for it (the result of the getter found there, or the inherited value),
\* whether or not the key had a tracker in the store when the prototype changed.
C32_ReadAfterPrototypeChange ==
    [][(/\ last.op = "setPrototypeOf" /\ last.changed
        /\ last'.op = "get" /\ ~HasOwn(own, last'.k)) =>
            last'.out = ReflectGet(own, proto, last'.k)]_vars


\* C33: setting through the proxy the prototype the raw object already has
\* returns true and does nothing: no update is raised (not for the prototype, the
\* shape or any property key), no computation is queued, the store is as it was
\* and no cache entry is evicted.
C33_SamePrototypeNoOp ==
    [][(last'.op = "setPrototypeOf" /\ last'.ok /\ proto' = proto) =>
            /\ last'.calls = {}
            /\ last'.passes = 0
            /\ queue' = queue
            /\ store' = store
            /\ cache' = cache
            /\ memo' = memo]_vars

\* The prototype is set to itself while a computation tracks the inherited key `b`
\* and the cache holds the accessor of its getter.
C33_Witness ==
    /\ last.op = "setPrototypeOf" /\ last.ok /\ ~last.changed
    /\ ~HasOwn(own, "b")
    /\ regs["c1"]["b"] > 0
    /\ cache["b"] = CacheMemo
    /\ memo.live


(***************************************************************************)
(* Properties of the mutations the raw object rejects                      *)
(***************************************************************************)

\* C34: a deleteProperty or defineProperty the raw object rejects returns false
\* through the proxy, and a deleteProperty, defineProperty or preventExtensions
\* that returns false raised no update, queued nothing, and left the raw object,
\* the store and the cache as they were.
C34_RejectedMutation ==
    [][/\ (last'.op = "defineProperty"
             /\ ~ReflectDefineProperty(own, ext, last'.k, last'.desc).ok) => ~last'.ok
       /\ (last'.op = "deleteProperty"
             /\ ~ReflectDeleteProperty(own, last'.k).ok) => ~last'.ok
       /\ (last'.op \in {"deleteProperty", "defineProperty", "preventExtensions"}
             /\ ~last'.ok) =>
            /\ last'.calls = {}
            /\ last'.passes = 0
            /\ queue' = queue
            /\ store' = store /\ count' = count /\ regs' = regs
            /\ cache' = cache /\ memo' = memo
            /\ own' = own /\ ext' = ext]_vars

\* A definition over the locked property `a` is rejected while a
\* computation tracks `a` and the cache holds its null marker.
C34_Witness ==
    /\ last.op = "defineProperty" /\ last.k = "a" /\ ~last.ok
    /\ regs["c1"]["a"] > 0
    /\ store["a"] = StoreForcer
    /\ cache["a"] = CacheNull


\* C35: a setPrototypeOf the raw object rejects (it returns false, the raw object
\* being no longer extensible) raises no update, queues no computation and evicts
\* no cache entry.
C35_RejectedSetPrototypeOf ==
    [][(last'.op = "setPrototypeOf" /\ ~last'.ok) =>
            /\ last'.calls = {}
            /\ queue' = queue
            /\ cache' = cache]_vars


(***************************************************************************)
(* Properties of createUnownedMemo                                         *)
(***************************************************************************)

C37_MarkerCleared ==
    [][/\ ~unowned'.running
       /\ (last'.op = "unowned" /\ last'.f # "self") =>
            /\ unowned'.end \notin {"fallback", "CircularGetterError"}
            /\ last'.threw # "CircularGetterError"
            /\ last'.f = "value" => last'.threw = "none"]_vars

\* A read that returns a value follows one that was refused as circular.
C37_Witness ==
    /\ last.op = "unowned" /\ last.f = "value" /\ last.threw = "none"
    /\ unowned.before = "CircularGetterError"
    /\ unowned.end = "value"
    /\ ~unowned.running

====
